---------------------------- MODULE Spec2Model ----------------------------
(***************************************************************************)
(* DocuCrawler: the document change tracker, the semantic chunker, the     *)
(* vector store adapters and the crawl -> process -> embed -> store        *)
(* pipeline, as state machines.                                            *)
(*                                                                         *)
(*   Spec          DocumentTracker (utils/document_tracker.py)             *)
(*   SpecChunk     AdvancedChunker (processors/advanced_chunker.py)        *)
(*   SpecDB        PGVectorDB, ElasticsearchDB, WeaviateDB (vectordb/)     *)
(*   SpecLedger    DocumentTracker with a ledger file that can be damaged  *)
(*   SpecPipeline  run_pipeline (main.py) for one source                   *)
(*   SpecSearch    search_documents (vectordb/integration.py)              *)
(*   SpecBatch     the batch loops of the crawler, processor and embedders *)
(*   SpecRetry     EnhancedGraniteEmbedder.embed_document and its retries  *)
(*   SpecWriters   two DocumentTracker.update_document calls, interleaved  *)
(*   SpecIntegration  the functions of vectordb/integration.py in sequence  *)
(***************************************************************************)
EXTENDS Integers, Sequences, FiniteSets, TLC

VARIABLES
    ledgers,    \* tracker: source name -> contents of <source>_metadata.json
    clock,      \* tracker: the time, which advances by one with every tracker call
    lastCall,   \* tracker: the last tracker call, its arguments, result and the ledgers before it
    prevCall,   \* tracker: the call before lastCall (operation and arguments)
    observed,   \* tracker: per source and id, the version last seen in the ledger (0: never)
    ck,         \* chunker: one chunk_text call, its arguments and what it returned
    store,      \* vector store: the adapter object (kind, client, collections, calls made)
    backend,    \* vector store: the database server the adapter talks to
    dbCall,     \* vector store: the last call on the adapter and what it returned
    created,    \* vector store: collections created successfully and not deleted since
    everCreated, \* vector store: collections whose create_collection ever returned True
    pl,         \* pipeline: the site, the data directories of one source and the runs' logs
    sd,         \* search: one search_documents call, its arguments and what it returned
    bt,         \* batches: one batch-processing run, its tasks and where each stands
    rt,         \* retry: one embed_document call, its chunks and the attempts made
    wr,         \* writers: two update_document calls on one ledger, step by step
    lc          \* integration: the last function of integration.py called and its adapter calls

vars_trk == <<ledgers, clock, lastCall, prevCall, observed>>

vars_db == <<store, backend, dbCall, created, everCreated>>

vars == <<ledgers, clock, lastCall, prevCall, observed, ck, store, backend, dbCall, created,
          everCreated, pl, sd, bt, rt, wr, lc>>

\* a part of the system that is not running
NoRun == [phase |-> "idle"]

(***************************************************************************)
(* Python dictionaries are functions on a finite set of keys.              *)
(***************************************************************************)
EmptyDict == [k \in {} |-> ""]

\* dict.update(other): other's keys win, all other keys are kept
DictUpdate(d, other) == other @@ d

\* dict.get(key, default)
DictGet(d, key, default) == IF key \in DOMAIN d THEN d[key] ELSE default

\* d[key] = value
DictSet(d, key, value) == (key :> value) @@ d

\* del d[key]
DictDel(d, key) == [k \in (DOMAIN d) \ {key} |-> d[k]]

(***************************************************************************)
(* DocumentTracker                                                         *)
(***************************************************************************)
MaxCalls == 3

Sources == {"langchain", "docling"}

DocIds == {"docs_intro", "docs_api"}

Contents == {"doc", "dot"}

Metadatas == {EmptyDict, [url |-> "u1"], [url |-> "u2", title |-> "t"]}

\* hashlib.sha256(content.encode('utf-8')).hexdigest(), tabulated on Contents
\* (leading 16 hex digits of the digest)
ContentHash(content) ==
    CASE content = "doc" -> "139d544b821b13eb"
      [] content = "dot" -> "e392dad8b08599f7"
      [] content = "dog" -> "cd6357efdd966de8"

\* None, where a timestamp is expected
NoTime == 0

\* datetime.now().isoformat() of the n-th reading of the wall clock
NowIso(n) == n

\* no <source>_metadata.json on disk
NoFile == [state |-> "absent", documents |-> EmptyDict, last_crawl |-> NoTime]

\* a ledger file that json.load rejects, and one it parses to an object
\* without the key 'documents' (such as {})
GarbledFile == [state |-> "garbled", documents |-> EmptyDict, last_crawl |-> NoTime]

NoDocumentsFile == [state |-> "nodocs", documents |-> EmptyDict, last_crawl |-> NoTime]

\* _load_metadata: a missing file, and one that raises json.JSONDecodeError,
\* load as {'documents': {}, 'last_crawl': None}; whatever json.load parses
\* is returned as it is
LoadMetadata(file) ==
    CASE file.state = "valid" ->
            [documents |-> file.documents, last_crawl |-> file.last_crawl]
      [] file.state = "nodocs" -> EmptyDict
      [] OTHER -> [documents |-> EmptyDict, last_crawl |-> NoTime]

\* _save_metadata: json.dump of the whole ledger
SaveMetadata(source_metadata) ==
    [state |-> "valid",
     documents |-> source_metadata.documents,
     last_crawl |-> source_metadata.last_crawl]

\* lines 98-105 with a change reported on every call
UpdateFlagsAlwaysChanged(documents, document_id, content_hash) ==
    <<document_id \notin DOMAIN documents, TRUE>>

\* update_document, lines 98-105: (is_new, has_changed)
UpdateFlags(documents, document_id, content_hash) ==
    LET is_new == document_id \notin DOMAIN documents
    IN  IF is_new
        THEN <<TRUE, TRUE>>
        ELSE <<FALSE, documents[document_id].content_hash # content_hash>>

\* lines 110-118 with the version counted from 0
NewRecordFromZero(content_hash, current_time, metadata) ==
    [content_hash |-> content_hash,
     created_at   |-> current_time,
     updated_at   |-> current_time,
     version      |-> 0,
     metadata     |-> metadata,
     deleted      |-> FALSE,
     deleted_at   |-> NoTime]

\* update_document, lines 110-118: the record of a new document
NewRecord(content_hash, current_time, metadata) ==
    [content_hash |-> content_hash,
     created_at   |-> current_time,
     updated_at   |-> current_time,
     version      |-> 1,
     metadata     |-> metadata,
     deleted      |-> FALSE,
     deleted_at   |-> NoTime]

\* lines 119-124 with the record rebuilt instead of updated in place
ChangedRecordRebuilt(rec, content_hash, current_time, metadata) ==
    [NewRecord(content_hash, current_time, metadata) EXCEPT !.version = rec.version + 1]

\* update_document, lines 119-124: the record of a changed document
ChangedRecord(rec, content_hash, current_time, metadata) ==
    [rec EXCEPT !.content_hash = content_hash,
                !.updated_at   = current_time,
                !.version      = @ + 1,
                !.metadata     = DictUpdate(@, metadata)]

\* lines 107-124 with a dictionary that holds the updated document alone
UpdateDocsOnlyThis(documents, document_id, content_hash, current_time, metadata) ==
    [k \in {document_id} |->
        IF document_id \in DOMAIN documents
        THEN ChangedRecord(documents[document_id], content_hash, current_time, metadata)
        ELSE NewRecord(content_hash, current_time, metadata)]

\* update_document, lines 107-124: the documents mapping after the call
UpdateDocs(documents, document_id, content_hash, current_time, metadata) ==
    LET flags == UpdateFlags(documents, document_id, content_hash)
    IN  IF flags[1]
        THEN DictSet(documents, document_id,
                     NewRecord(content_hash, current_time, metadata))
        ELSE IF flags[2]
        THEN DictSet(documents, document_id,
                     ChangedRecord(documents[document_id], content_hash,
                                   current_time, metadata))
        ELSE documents

\* update_document as a whole: the file written and the pair returned
UpdateDocumentOutcome(file, document_id, content, metadata, current_time) ==
    LET source_metadata == LoadMetadata(file)
        documents       == source_metadata.documents
        content_hash    == ContentHash(content)
    IN  IF "documents" \notin DOMAIN source_metadata
        THEN [file |-> file, ret |-> <<>>, raised |-> TRUE]
        ELSE [file |-> SaveMetadata(
                        [documents  |-> UpdateDocs(documents, document_id,
                                                   content_hash, current_time,
                                                   metadata),
                         last_crawl |-> current_time]),
              ret  |-> UpdateFlags(documents, document_id, content_hash),
              raised |-> FALSE]

\* mark_document_deleted with the record removed instead of flagged
MarkDeletedOutcomeRemoving(file, document_id, current_time) ==
    LET source_metadata == LoadMetadata(file)
    IN  IF "documents" \notin DOMAIN source_metadata
        THEN [file |-> file, ret |-> FALSE, raised |-> TRUE]
        ELSE IF document_id \in DOMAIN source_metadata.documents
        THEN [file |-> SaveMetadata(
                        [source_metadata EXCEPT
                            !.documents = DictDel(@, document_id)]),
              ret |-> TRUE, raised |-> FALSE]
        ELSE [file |-> file, ret |-> FALSE, raised |-> FALSE]

\* mark_document_deleted as a whole: the file afterwards and the bool returned
MarkDeletedOutcome(file, document_id, current_time) ==
    LET source_metadata == LoadMetadata(file)
        documents       == source_metadata.documents
    IN  IF "documents" \notin DOMAIN source_metadata
        THEN [file |-> file, ret |-> FALSE, raised |-> TRUE]
        ELSE IF document_id \in DOMAIN documents
        THEN [file |-> SaveMetadata(
                        [source_metadata EXCEPT
                            !.documents = DictSet(documents, document_id,
                                [documents[document_id] EXCEPT
                                    !.deleted = TRUE,
                                    !.deleted_at = current_time])]),
              ret  |-> TRUE, raised |-> FALSE]
        ELSE [file |-> file, ret |-> FALSE, raised |-> FALSE]

\* the versions seen once an operation has returned: those of the records
\* the ledgers hold then (as get_document_metadata reads them), and for an
\* id without a record the version seen before
Observe(seen, files) ==
    [s \in Sources |-> [id \in DocIds |->
        LET loaded == LoadMetadata(files[s])
        IN  IF "documents" \in DOMAIN loaded /\ id \in DOMAIN loaded.documents
            THEN loaded.documents[id].version
            ELSE seen[s][id]]]

NoCall == [op |-> "none", source |-> "", document_id |-> "", content |-> "",
           metadata |-> EmptyDict]

TrkInit ==
    /\ ledgers = [s \in Sources |-> NoFile]
    /\ clock = 0
    /\ lastCall = [call |-> NoCall, ret |-> <<>>, raised |-> FALSE,
                   before |-> [s \in Sources |-> NoFile]]
    /\ prevCall = NoCall
    /\ observed = [s \in Sources |-> [id \in DocIds |-> 0]]

UpdateDocument ==
    \E source \in Sources, document_id \in DocIds, content \in Contents,
       metadata \in Metadatas :
        LET out == UpdateDocumentOutcome(ledgers[source], document_id, content,
                                         metadata, NowIso(clock + 1))
        IN  /\ clock < MaxCalls
            /\ clock' = clock + 1
            /\ ledgers' = [ledgers EXCEPT ![source] = out.file]
            /\ lastCall' = [call |-> [op |-> "update_document", source |-> source,
                                      document_id |-> document_id,
                                      content |-> content, metadata |-> metadata],
                            ret |-> out.ret, raised |-> out.raised,
                            before |-> ledgers]
            /\ prevCall' = lastCall.call
            /\ observed' = Observe(observed, ledgers')

MarkDocumentDeleted ==
    \E source \in Sources, document_id \in DocIds :
        LET out == MarkDeletedOutcome(ledgers[source], document_id, NowIso(clock + 1))
        IN  /\ clock < MaxCalls
            /\ clock' = clock + 1
            /\ ledgers' = [ledgers EXCEPT ![source] = out.file]
            /\ lastCall' = [call |-> [op |-> "mark_document_deleted", source |-> source,
                                      document_id |-> document_id,
                                      content |-> "", metadata |-> EmptyDict],
                            ret |-> <<out.ret>>, raised |-> out.raised,
                            before |-> ledgers]
            /\ prevCall' = lastCall.call
            /\ observed' = Observe(observed, ledgers')

TrkNext == UpdateDocument \/ MarkDocumentDeleted

\* get_document_metadata(source, document_id): the record, or None
GetDocumentMetadata ==
    \E source \in Sources, document_id \in DocIds :
        LET source_metadata == LoadMetadata(ledgers[source])
            raised == "documents" \notin DOMAIN source_metadata
        IN  /\ lastCall' = [call |-> [op |-> "get_document_metadata",
                                      source |-> source, document_id |-> document_id,
                                      content |-> "", metadata |-> EmptyDict],
                            ret |-> IF raised THEN <<>>
                                    ELSE IF document_id \in DOMAIN source_metadata.documents
                                    THEN <<"record", source_metadata.documents[document_id]>>
                                    ELSE <<"None">>,
                            raised |-> raised, before |-> ledgers]
            /\ prevCall' = lastCall.call
            /\ observed' = Observe(observed, ledgers)
            /\ clock < MaxCalls
            /\ clock' = clock + 1
            /\ UNCHANGED ledgers

\* get_all_document_ids(source): the keys of the ledger's documents
GetAllDocumentIds ==
    \E source \in Sources :
        LET source_metadata == LoadMetadata(ledgers[source])
            raised == "documents" \notin DOMAIN source_metadata
        IN  /\ lastCall' = [call |-> [op |-> "get_all_document_ids",
                                      source |-> source, document_id |-> "",
                                      content |-> "", metadata |-> EmptyDict],
                            ret |-> IF raised THEN <<>>
                                    ELSE <<"ids", DOMAIN source_metadata.documents>>,
                            raised |-> raised, before |-> ledgers]
            /\ prevCall' = lastCall.call
            /\ observed' = Observe(observed, ledgers)
            /\ clock < MaxCalls
            /\ clock' = clock + 1
            /\ UNCHANGED ledgers

\* between two tracker calls the ledger file of a source is damaged
CorruptLedger ==
    \E source \in Sources, file \in {GarbledFile, NoDocumentsFile} :
        /\ ledgers[source].state \in {"absent", "valid"}
        /\ ledgers' = [ledgers EXCEPT ![source] = file]
        /\ UNCHANGED <<clock, lastCall, prevCall, observed>>

(***************************************************************************)
(* AdvancedChunker.  A text is a sequence of characters; the alphabet has  *)
(* one letter, the two whitespace characters the patterns tell apart, one  *)
(* sentence terminator and the heading marker.                             *)
(***************************************************************************)
MaxLen == 4

MaxChunkSize == 2

MaxMinSize == 1

MaxOverlap == 2

Chars == {"a", " ", "\n", ".", "#"}

Texts == UNION {[1..n -> Chars] : n \in 0..MaxLen}

Configs ==
    [max_chunk_size : 1..MaxChunkSize, min_chunk_size : 0..MaxMinSize,
     overlap : 0..MaxOverlap, respect_sections : BOOLEAN,
     respect_paragraphs : BOOLEAN, respect_sentences : BOOLEAN]

\* metadata arguments of chunk_text: None, and one that already has chunk keys
ChunkMetadatas == {EmptyDict, [title |-> 0, chunk_index |-> 7, chunk_count |-> 9]}

Min2(a, b) == IF a < b THEN a ELSE b

\* text[i:j] for 0 <= i (Python slicing clips j to len(text))
Slice(text, i, j) == SubSeq(text, i + 1, Min2(j, Len(text)))

\* \s of the re module, on Chars
IsSpace(c) == c \in {" ", "\n"}

\* not s.strip()
IsBlank(s) == \A i \in 1..Len(s) : IsSpace(s[i])

\* '##' in text
HasHeadingMarker(text) ==
    \E i \in 1..(Len(text) - 1) : text[i] = "#" /\ text[i + 1] = "#"

\* last index of the run of characters satisfying the test that starts at index p
\* (p - 1 when text[p] fails it)
RECURSIVE SpaceRunEnd(_, _)
SpaceRunEnd(text, p) ==
    IF p <= Len(text) /\ IsSpace(text[p]) THEN SpaceRunEnd(text, p + 1) ELSE p - 1

RECURSIVE LineEnd(_, _)
LineEnd(text, p) ==
    IF p <= Len(text) /\ text[p] # "\n" THEN LineEnd(text, p + 1) ELSE p - 1

\* r'\n\s*\n' matched at index p: the index of the match's last character, 0 for no match
ParagraphBreakEnd(text, p) ==
    IF text[p] # "\n" THEN 0
    ELSE LET ends == {k \in (p + 1)..SpaceRunEnd(text, p + 1) : text[k] = "\n"}
         IN  IF ends = {} THEN 0 ELSE CHOOSE k \in ends : \A j \in ends : j <= k

\* r'(?<=[.!?])\s+' matched at index p: the index of the match's last character, 0 for no match
SentenceBreakEnd(text, p) ==
    IF p >= 2 /\ text[p - 1] = "." /\ IsSpace(text[p])
    THEN SpaceRunEnd(text, p) ELSE 0

\* re.split(pattern, text) for a pattern without groups: the pieces between the
\* leftmost non-overlapping matches; kind selects the pattern
RECURSIVE SplitFrom(_, _, _, _)
SplitFrom(text, kind, start, p) ==
    IF p > Len(text) THEN <<SubSeq(text, start, Len(text))>>
    ELSE LET e == IF kind = "paragraph" THEN ParagraphBreakEnd(text, p)
                  ELSE SentenceBreakEnd(text, p)
         IN  IF e = 0 THEN SplitFrom(text, kind, start, p + 1)
             ELSE <<SubSeq(text, start, p - 1)>> \o SplitFrom(text, kind, e + 1, e + 1)

\* re.split(r'\n\s*\n', text)
SplitParagraphs(text) == SplitFrom(text, "paragraph", 1, 1)

\* re.split(r'(?<=[.!?])\s+', text)
SplitSentences(text) == SplitFrom(text, "sentence", 1, 1)

\* r'(^|\n)(#{2,}[^\n]+)' matched at index p: the index where group 2 starts, 0 for
\* no match.  ^ matches at the start of the text only (no re.MULTILINE).
HeadingStart(text, p) ==
    LET h == IF p = 1 /\ text[1] # "\n" THEN 1
             ELSE IF text[p] = "\n" THEN p + 1 ELSE 0
    IN  IF /\ h > 0
           /\ h + 2 <= Len(text)
           /\ text[h] = "#" /\ text[h + 1] = "#" /\ text[h + 2] # "\n"
        THEN h ELSE 0

\* re.split(r'(^|\n)(#{2,}[^\n]+)', text): text before the first match, then for
\* every match its two groups and the text up to the next match
RECURSIVE SplitSectionsFrom(_, _, _)
SplitSectionsFrom(text, start, p) ==
    IF p > Len(text) THEN <<SubSeq(text, start, Len(text))>>
    ELSE LET h == HeadingStart(text, p)
             e == LineEnd(text, h)
         IN  IF h = 0 THEN SplitSectionsFrom(text, start, p + 1)
             ELSE <<SubSeq(text, start, p - 1), SubSeq(text, p, h - 1),
                    SubSeq(text, h, e)>> \o SplitSectionsFrom(text, e + 1, e + 1)

SplitSections(text) == SplitSectionsFrom(text, 1, 1)

\* the result of a splitting method: the chunks, or the exception it raised
Chunks(seq) == [raised |-> FALSE, chunks |-> seq]

Raised == [raised |-> TRUE, chunks |-> <<>>]

\* result.extend(more), where computing more may raise
Extend(result, more) ==
    IF result.raised \/ more.raised THEN Raised
    ELSE Chunks(result.chunks \o more.chunks)

\* range(0, n, step) as the sequence of its values; empty for a negative step
RECURSIVE RangeFrom(_, _, _)
RangeFrom(i, n, step) ==
    IF i >= n \/ step <= 0 THEN <<>> ELSE <<i>> \o RangeFrom(i + step, n, step)

CharsPerToken == 4

\* _split_by_tokens: range() raises ValueError for a step of zero
SplitByTokens(text, cfg) ==
    LET max_chars == cfg.max_chunk_size * CharsPerToken
        step      == max_chars - cfg.overlap * CharsPerToken
        starts    == RangeFrom(0, Len(text), step)
        windows   == [k \in 1..Len(starts) |-> Slice(text, starts[k], starts[k] + max_chars)]
    IN  IF step = 0 THEN Raised
        ELSE Chunks(SelectSeq(windows, LAMBDA w : w # <<>>))

\* the packing loop of _split_by_paragraphs and _split_by_sentences (lines
\* 127-147, 172-192): units[i..] packed onto current, joined by sep
RECURSIVE PackUnits(_, _, _, _, _)
PackUnits(units, i, current, sep, cfg) ==
    IF i > Len(units)
    THEN IF current # <<>> THEN <<current>> ELSE <<>>
    ELSE IF IsBlank(units[i]) THEN PackUnits(units, i + 1, current, sep, cfg)
    ELSE IF /\ Len(current) + Len(units[i]) > cfg.max_chunk_size
            /\ Len(current) >= cfg.min_chunk_size
    THEN <<current>> \o PackUnits(units, i + 1, units[i], sep, cfg)
    ELSE PackUnits(units, i + 1,
                   IF current # <<>> THEN current \o sep \o units[i] ELSE units[i],
                   sep, cfg)

\* lines 194-202: chunks over max_chunk_size go to _split_by_tokens
RECURSIVE RefineByTokens(_, _, _)
RefineByTokens(chunks, i, cfg) ==
    IF i > Len(chunks) THEN Chunks(<<>>)
    ELSE Extend(IF Len(chunks[i]) > cfg.max_chunk_size
                THEN SplitByTokens(chunks[i], cfg)
                ELSE Chunks(<<chunks[i]>>),
                RefineByTokens(chunks, i + 1, cfg))

\* _split_by_sentences
SplitBySentences(text, cfg) ==
    RefineByTokens(PackUnits(SplitSentences(text), 1, <<>>, <<" ">>, cfg), 1, cfg)

\* lines 149-157: chunks over max_chunk_size go to _split_by_sentences
RECURSIVE RefineBySentences(_, _, _)
RefineBySentences(chunks, i, cfg) ==
    IF i > Len(chunks) THEN Chunks(<<>>)
    ELSE Extend(IF Len(chunks[i]) > cfg.max_chunk_size
                THEN SplitBySentences(chunks[i], cfg)
                ELSE Chunks(<<chunks[i]>>),
                RefineBySentences(chunks, i + 1, cfg))

\* _split_by_paragraphs
SplitByParagraphs(text, cfg) ==
    RefineBySentences(PackUnits(SplitParagraphs(text), 1, <<>>, <<"\n", "\n">>, cfg),
                      1, cfg)

\* the packing loop of _split_by_sections (lines 83-100) over sections =
\* re.split(...): i is the index of a match's first group
RECURSIVE PackSections(_, _, _, _)
PackSections(sections, i, current, cfg) ==
    IF i + 2 > Len(sections)
    THEN IF current # <<>> THEN <<current>> ELSE <<>>
    ELSE LET heading == sections[i] \o sections[i + 1]
             content == sections[i + 2]
         IN  IF /\ Len(current) + Len(heading) + Len(content) > cfg.max_chunk_size
                /\ Len(current) >= cfg.min_chunk_size
             THEN <<current>> \o PackSections(sections, i + 3, heading \o content, cfg)
             ELSE PackSections(sections, i + 3, current \o heading \o content, cfg)

\* lines 102-113: chunks over max_chunk_size are split by paragraphs or sentences
RECURSIVE RefineSections(_, _, _)
RefineSections(chunks, i, cfg) ==
    IF i > Len(chunks) THEN Chunks(<<>>)
    ELSE Extend(IF Len(chunks[i]) > cfg.max_chunk_size
                THEN IF cfg.respect_paragraphs
                     THEN SplitByParagraphs(chunks[i], cfg)
                     ELSE SplitBySentences(chunks[i], cfg)
                ELSE Chunks(<<chunks[i]>>),
                RefineSections(chunks, i + 1, cfg))

\* _split_by_sections
SplitBySections(text, cfg) ==
    LET sections == SplitSections(text)
    IN  RefineSections(PackSections(sections, 2, sections[1], cfg), 1, cfg)

\* chunk_text, lines 40-51: the cascade
Cascade(text, cfg) ==
    IF cfg.respect_sections /\ HasHeadingMarker(text) THEN SplitBySections(text, cfg)
    ELSE IF cfg.respect_paragraphs THEN SplitByParagraphs(text, cfg)
    ELSE IF cfg.respect_sentences THEN SplitBySentences(text, cfg)
    ELSE SplitByTokens(text, cfg)

\* lines 53-67 with the update the other way round: the caller's keys win
AddMetadataCallerWins(chunks, metadata) ==
    [k \in 1..Len(chunks) |->
        [content  |-> chunks[k],
         metadata |-> DictUpdate([chunk_index |-> k - 1, chunk_count |-> Len(chunks)],
                                 metadata)]]

\* chunk_text, lines 53-67: chunk i gets the caller's metadata updated with
\* chunk_index i (from 0) and chunk_count len(chunks)
AddMetadata(chunks, metadata) ==
    [k \in 1..Len(chunks) |->
        [content  |-> chunks[k],
         metadata |-> DictUpdate(metadata, [chunk_index |-> k - 1,
                                            chunk_count |-> Len(chunks)])]]

\* chunk_text: the list returned, or the exception raised
ChunkText(text, cfg, metadata) ==
    LET r == Cascade(text, cfg)
    IN  IF r.raised THEN [raised |-> TRUE, result |-> <<>>]
        ELSE [raised |-> FALSE, result |-> AddMetadata(r.chunks, metadata)]

\* no chunk_text call in progress
CkIdle == [phase |-> "idle", text |-> <<>>, cfg |-> <<>>, metadata |-> EmptyDict,
           out |-> <<>>]

\* a call of chunk_text(text, metadata) on an AdvancedChunker(config)
CkInit ==
    \E text \in Texts, cfg \in Configs, metadata \in ChunkMetadatas :
        ck = [phase |-> "called", text |-> text, cfg |-> cfg, metadata |-> metadata,
              out |-> <<>>]

ChunkTextReturns ==
    /\ ck.phase = "called"
    /\ ck' = [ck EXCEPT !.phase = "returned",
                        !.out = ChunkText(ck.text, ck.cfg, ck.metadata)]

(***************************************************************************)
(* The vector store adapters: PGVectorDB, ElasticsearchDB, WeaviateDB.     *)
(* One adapter object (store) talks to its backend; the backend is         *)
(* modelled by what the adapter's calls do to it.  Embeddings are vectors  *)
(* of the embedding model's width (768), given by their first two          *)
(* coordinates, the others being 0.  Similarities are in hundredths.       *)
(* An operation on a usable session of a reachable backend fails only for *)
(* the backend-reported reasons modelled here.                             *)
(***************************************************************************)
MaxDbCalls == 5

MaxLimit == 2

DbTypes == {"pgvector", "elasticsearch", "weaviate"}

Collections == {"docs", "kb"}

StoreIds == {"d1", "d2"}

\* the width of the vectors the embedding model returns
EmbeddingWidth == 768

\* dimension arguments of create_collection
Dimensions == {768, 384}

Vecs == {<<1, 0>>, <<2, 0>>, <<3, 4>>, <<0, 1>>}

\* (embedding, metadata) arguments of insert_document: flat vectors, and one
\* list of per-chunk vectors
InsertArgs ==
    {[embedding |-> [nested |-> FALSE, vs |-> <<<<1, 0>>>>],
      metadata  |-> [title |-> "Intro", content |-> "c1"]],
     [embedding |-> [nested |-> FALSE, vs |-> <<<<2, 0>>>>],
      metadata  |-> [content |-> "c2", summary |-> "s"]],
     [embedding |-> [nested |-> FALSE, vs |-> <<<<3, 4>>>>],
      metadata  |-> [title |-> "Intro", content |-> "c1"]],
     [embedding |-> [nested |-> TRUE, vs |-> <<<<0, 1>>, <<1, 0>>>>],
      metadata  |-> [content |-> "c2", summary |-> "s"]]}

\* insert_document, lines 186-192: a list of vectors is reduced to its first
EmbeddingVector(embedding) == embedding.vs[1]

\* insert_document, lines 194-206: what is stored for a document
StoredFields(embedding, metadata) ==
    [title     |-> DictGet(metadata, "title", ""),
     content   |-> DictGet(metadata, "content", ""),
     metadata  |-> metadata,
     embedding |-> EmbeddingVector(embedding)]

\* cosine similarity, in hundredths (the vectors of Vecs have integer norms)
CosSim100(a, b) ==
    LET Dot(x, y) == x[1] * y[1] + x[2] * y[2]
        Norm(x)   == CHOOSE n \in 0..Dot(x, x) : n * n = Dot(x, x)
    IN  (100 * Dot(a, b)) \div (Norm(a) * Norm(b))

\* pgvector's cosine_distance, in hundredths
PgDistance(a, q) == 100 - CosSim100(a, q)

\* 'similarity': 1.0 - distance
PgSimilarity(a, q) == 100 - PgDistance(a, q)

\* the script score "cosineSimilarity(params.query_vector, 'embedding') + 1.0"
EsScore(a, q) == CosSim100(a, q) + 100

\* 'similarity': hit['_score'] - 1.0
EsSimilarity(a, q) == EsScore(a, q) - 100

\* Weaviate's certainty of a cosine distance: (1 + cosine similarity) / 2
WvCertainty(a, q) == (100 + CosSim100(a, q)) \div 2

\* "certainty": 0.7 of with_near_vector
CertaintyThreshold == 70

\* obj.get('_additional', {}).get('certainty', 0.0): the query asks for no
\* _additional properties, so every hit reports the default
WvSimilarity(a, q) == DictGet(EmptyDict, "certainty", 0)

\* f"{self.index_prefix}_{collection_name}"
IndexName(collection_name) == "docucrawler_" \o collection_name

\* str.capitalize(), on the collection names used
Capitalize(collection_name) ==
    CASE collection_name = "docs"      -> "Docs"
      [] collection_name = "kb"        -> "Kb"
      [] collection_name = "langchain" -> "Langchain"

\* f"{self.class_prefix}{collection_name.capitalize()}"
ClassName(collection_name) == "DocuCrawler" \o Capitalize(collection_name)

\* generate_uuid5(document_id): a function of the document id alone
Uuid5(document_id) == "uuid5:" \o document_id

\* the adapter object after __init__
NewStore(db_type) ==
    [db_type |-> db_type, client |-> "none", collections |-> EmptyDict, calls |-> 0]

\* the backend before anything was created in it; up: it accepts this client
NewBackend(up) ==
    [up |-> up,
     pg |-> [table |-> FALSE, rows |-> EmptyDict],
     es |-> EmptyDict,
     wv |-> EmptyDict]

\* whether a backend request of the adapter can succeed: PGVectorDB's engines
\* exist from connect() on and reconnect after dispose(); ElasticsearchDB's
\* client is closed by disconnect(); WeaviateDB's client is None again
SessionUsable(st, b) ==
    /\ b.up
    /\ IF st.db_type = "pgvector" THEN st.client \in {"open", "closed"}
       ELSE st.client = "open"

\* the records of a collection, by document id (ElasticsearchDB: as get-by-id sees them)
RecordsOf(db_type, b, c) ==
    CASE db_type = "pgvector" ->
            LET ids == {id \in DOMAIN b.pg.rows : b.pg.rows[id].collection = c}
            IN  [id \in ids |-> b.pg.rows[id].fields]
      [] db_type = "elasticsearch" ->
            IF IndexName(c) \in DOMAIN b.es THEN b.es[IndexName(c)].docs ELSE EmptyDict
      [] db_type = "weaviate" ->
            IF ClassName(c) \in DOMAIN b.wv
            THEN LET objs == b.wv[ClassName(c)].objects
                     ids  == {objs[u].document_id : u \in DOMAIN objs}
                 IN  [id \in ids |-> objs[Uuid5(id)].fields]
            ELSE EmptyDict

\* the records a search of the collection ranks
SearchableOf(db_type, b, c) ==
    IF db_type = "elasticsearch"
    THEN IF IndexName(c) \in DOMAIN b.es /\ b.es[IndexName(c)].dense
         THEN b.es[IndexName(c)].searchable ELSE EmptyDict
    ELSE RecordsOf(db_type, b, c)

\* create_collection that creates the index or class anew when it exists
CreateCollectionBackendRecreating(db_type, b, c, dimension) ==
    CASE db_type = "pgvector" ->
            [b EXCEPT !.pg.table = TRUE,
                      !.pg.rows = [id \in {i \in DOMAIN @ : @[i].collection # c} |-> @[id]]]
      [] db_type = "elasticsearch" ->
            [b EXCEPT !.es = DictSet(@, IndexName(c),
                        [dense |-> TRUE, dims |-> dimension,
                         docs |-> EmptyDict, searchable |-> EmptyDict])]
      [] db_type = "weaviate" ->
            [b EXCEPT !.wv = DictSet(@, ClassName(c), [objects |-> EmptyDict])]

\* create_collection on a usable session: the backend afterwards
CreateCollectionBackend(db_type, b, c, dimension) ==
    CASE db_type = "pgvector" ->
            \* Base.metadata.create_all: one documents table for all collections
            [b EXCEPT !.pg.table = TRUE]
      [] db_type = "elasticsearch" ->
            IF IndexName(c) \in DOMAIN b.es THEN b
            ELSE [b EXCEPT !.es = DictSet(@, IndexName(c),
                        [dense |-> TRUE, dims |-> dimension,
                         docs |-> EmptyDict, searchable |-> EmptyDict])]
      [] db_type = "weaviate" ->
            IF ClassName(c) \in DOMAIN b.wv THEN b
            ELSE [b EXCEPT !.wv = DictSet(@, ClassName(c), [objects |-> EmptyDict])]

\* PGVectorDB.insert_document, lines 208-227: the row is looked up by id and
\* collection and added when not found; documents.id is the primary key
PgInsert(b, c, id, fields) ==
    IF ~b.pg.table THEN [ok |-> FALSE, backend |-> b]
    ELSE IF id \in DOMAIN b.pg.rows /\ b.pg.rows[id].collection # c
    THEN [ok |-> FALSE, backend |-> b]
    ELSE [ok |-> TRUE,
          backend |-> [b EXCEPT !.pg.rows =
                        DictSet(@, id, [collection |-> c, fields |-> fields])]]

\* ElasticsearchDB.insert_document, lines 159-161: client.index(index, id,
\* document) replaces the document of that id; an index that does not exist is
\* created with a dynamic mapping (no dense_vector field); the change is not
\* searchable before the index refreshes
EsInsert(b, c, id, fields) ==
    LET name == IndexName(c)
    IN  IF name \notin DOMAIN b.es
        THEN [ok |-> TRUE,
              backend |-> [b EXCEPT !.es = DictSet(@, name,
                            [dense |-> FALSE, dims |-> 0,
                             docs |-> DictSet(EmptyDict, id, fields),
                             searchable |-> EmptyDict])]]
        ELSE IF b.es[name].dense /\ b.es[name].dims # EmbeddingWidth
        THEN [ok |-> FALSE, backend |-> b]
        ELSE [ok |-> TRUE,
              backend |-> [b EXCEPT !.es[name].docs = DictSet(@, id, fields)]]

\* WeaviateDB.insert_document, lines 165-183: data_object.create of the
\* properties (document_id among them) under the uuid of the document id; Weaviate rejects a uuid the class already holds,
\* and creates a class that does not exist from the object (auto-schema)
WvInsert(b, c, id, fields) ==
    LET name == ClassName(c)
        objs == IF name \in DOMAIN b.wv THEN b.wv[name].objects ELSE EmptyDict
    IN  IF Uuid5(id) \in DOMAIN objs
        THEN [ok |-> FALSE, backend |-> b]
        ELSE [ok |-> TRUE,
              backend |-> [b EXCEPT !.wv = DictSet(@, name,
                            [objects |-> DictSet(objs, Uuid5(id),
                                            [document_id |-> id, fields |-> fields])])]]

\* insert_document on a usable session
InsertBackend(db_type, b, c, id, embedding, metadata) ==
    LET fields == StoredFields(embedding, metadata)
    IN  CASE db_type = "pgvector"      -> PgInsert(b, c, id, fields)
          [] db_type = "elasticsearch" -> EsInsert(b, c, id, fields)
          [] db_type = "weaviate"      -> WvInsert(b, c, id, fields)

\* the similarity an adapter reports for a stored vector and a query
Similarity(db_type, a, q) ==
    CASE db_type = "pgvector"      -> PgSimilarity(a, q)
      [] db_type = "elasticsearch" -> EsSimilarity(a, q)
      [] db_type = "weaviate"      -> WvSimilarity(a, q)

\* the backend's rank of a stored vector for a query: higher comes first
\* (ascending distance, descending score, descending certainty)
Rank(db_type, a, q) ==
    CASE db_type = "pgvector"      -> 0 - PgDistance(a, q)
      [] db_type = "elasticsearch" -> EsScore(a, q)
      [] db_type = "weaviate"      -> WvCertainty(a, q)

\* the rows a backend may answer: the top `limit` of the ranked ids in rank
\* order, ids of equal rank in any order; Weaviate ranks only the ids that
\* reach the certainty threshold
TopOrders(db_type, recs, q, limit) ==
    LET ids == IF db_type = "weaviate"
               THEN {id \in DOMAIN recs :
                        WvCertainty(recs[id].embedding, q) >= CertaintyThreshold}
               ELSE DOMAIN recs
        n   == Min2(limit, Cardinality(ids))
        r(id) == Rank(db_type, recs[id].embedding, q)
    IN  {o \in [1..n -> ids] :
            /\ \A i, j \in 1..n : i < j => o[i] # o[j] /\ r(o[i]) >= r(o[j])
            /\ \A id \in ids : (\A i \in 1..n : o[i] # id) =>
                                  \A i \in 1..n : r(o[i]) >= r(id)}

\* search, the "Format results" loops: the hits for rows in the order o
FormatHits(db_type, recs, q, o) ==
    [k \in 1..Len(o) |->
        [id         |-> o[k],
         title      |-> recs[o[k]].title,
         content    |-> recs[o[k]].content,
         metadata   |-> recs[o[k]].metadata,
         similarity |-> Similarity(db_type, recs[o[k]].embedding, q)]]

\* search on a usable session, filters=None: the lists it may return
SearchResults(db_type, b, c, q, limit) ==
    LET recs == SearchableOf(db_type, b, c)
    IN  {FormatHits(db_type, recs, q, o) : o \in TopOrders(db_type, recs, q, limit)}

\* delete_document on a usable session
DeleteDocumentBackend(db_type, b, c, id) ==
    IF id \notin DOMAIN RecordsOf(db_type, b, c) THEN [ok |-> FALSE, backend |-> b]
    ELSE [ok |-> TRUE,
          backend |->
            CASE db_type = "pgvector" -> [b EXCEPT !.pg.rows = DictDel(@, id)]
              [] db_type = "elasticsearch" ->
                    [b EXCEPT !.es[IndexName(c)].docs = DictDel(@, id)]
              [] db_type = "weaviate" ->
                    [b EXCEPT !.wv[ClassName(c)].objects = DictDel(@, Uuid5(id))]]

\* delete_collection on a usable session: the outcomes it may have.  Deleting
\* a class Weaviate does not have is accepted or rejected, by server version.
DeleteCollectionOutcomes(db_type, b, c) ==
    CASE db_type = "pgvector" ->
            IF ~b.pg.table THEN {[ok |-> FALSE, backend |-> b]}
            ELSE LET keep == {id \in DOMAIN b.pg.rows : b.pg.rows[id].collection # c}
                 IN  {[ok |-> TRUE,
                       backend |-> [b EXCEPT !.pg.rows = [id \in keep |-> b.pg.rows[id]]]]}
      [] db_type = "elasticsearch" ->
            IF IndexName(c) \notin DOMAIN b.es THEN {[ok |-> FALSE, backend |-> b]}
            ELSE {[ok |-> TRUE, backend |-> [b EXCEPT !.es = DictDel(@, IndexName(c))]]}
      [] db_type = "weaviate" ->
            IF ClassName(c) \notin DOMAIN b.wv
            THEN {[ok |-> TRUE, backend |-> b], [ok |-> FALSE, backend |-> b]}
            ELSE {[ok |-> TRUE, backend |-> [b EXCEPT !.wv = DictDel(@, ClassName(c))]]}

\* the last call made on the adapter and what it returned
DbIdle ==
    [op |-> "none", collection |-> "", id |-> "", embedding |-> <<>>,
     metadata |-> EmptyDict, query |-> <<>>, limit |-> 0, ok |-> FALSE, hits |-> <<>>,
     raised |-> FALSE]

DbInit ==
    /\ store \in {NewStore(t) : t \in DbTypes}
    /\ backend \in {NewBackend(up) : up \in BOOLEAN}
    /\ dbCall = DbIdle
    \* history: the collections whose create_collection returned True and that
    \* were not deleted since
    /\ created = {}
    /\ everCreated = {}

DbHeld ==
    /\ store = NewStore("pgvector")
    /\ backend = NewBackend(FALSE)
    /\ dbCall = DbIdle
    /\ created = {}
    /\ everCreated = {}

CanCall == store.calls < MaxDbCalls

\* connect(): the client objects are made before the server is asked;
\* weaviate.Client() itself raises when the server does not answer
ConnectOutcome(st, b) ==
    [ok    |-> b.up,
     store |-> [st EXCEPT !.client =
                    IF b.up \/ st.db_type # "weaviate" THEN "open" ELSE @]]

\* disconnect(): True also when never connected
DisconnectOutcome(st) ==
    [ok    |-> TRUE,
     store |-> [st EXCEPT !.client =
                    CASE st.db_type = "weaviate" -> "none"
                      [] st.client = "none"      -> "none"
                      [] OTHER                   -> "closed"]]

\* create_collection: the dimension is recorded before the backend is asked
CreateCollectionOutcome(st, b, c, dimension) ==
    LET usable == SessionUsable(st, b)
    IN  [ok      |-> usable,
         store   |-> [st EXCEPT !.collections = DictSet(@, c, dimension)],
         backend |-> IF usable
                     THEN CreateCollectionBackend(st.db_type, b, c, dimension)
                     ELSE b]

\* insert_document: False when the backend request raises
InsertDocumentOutcome(st, b, c, id, embedding, metadata) ==
    IF SessionUsable(st, b)
    THEN InsertBackend(st.db_type, b, c, id, embedding, metadata)
    ELSE [ok |-> FALSE, backend |-> b]

\* search on any session: the lists it may return ([] when the request raises)
SearchOutcomes(st, b, c, q, limit) ==
    IF SessionUsable(st, b) /\ (st.db_type = "pgvector" => b.pg.table)
    THEN SearchResults(st.db_type, b, c, q, limit)
    ELSE {<<>>}

Called(st) == [st EXCEPT !.calls = @ + 1]

\* whether the body of an adapter method raises, given what the method
\* returned: the requests of an unusable session raise, and so do the errors
\* the backend reports (a missing table, index or object, a rejected insert);
\* a document or index that is merely not found makes delete_document of
\* PGVectorDB and ElasticsearchDB and delete_collection of ElasticsearchDB
\* return False without an exception
BodyRaises(op, st, b, c, ok) ==
    CASE op = "connect"    -> ~b.up
      [] op = "disconnect" -> FALSE
      [] op = "search" ->
            \/ ~SessionUsable(st, b)
            \/ st.db_type = "pgvector" /\ ~b.pg.table
            \/ /\ st.db_type = "elasticsearch"
               /\ (IndexName(c) \notin DOMAIN b.es \/ ~b.es[IndexName(c)].dense)
      [] op = "delete_document" ->
            \/ ~SessionUsable(st, b)
            \/ st.db_type = "pgvector" /\ ~b.pg.table
            \/ st.db_type = "weaviate" /\ ~ok
      [] op = "delete_collection" ->
            \/ ~SessionUsable(st, b)
            \/ st.db_type # "elasticsearch" /\ ~ok
      [] OTHER -> ~ok

\* the handler with no except clause: an exception of the body leaves the method
NoExceptClause(bodyRaises) == bodyRaises

\* "try: ... except Exception as e: print(...); return False" (return [] in
\* search) around the whole body of every adapter method: whether an
\* exception leaves the method
ExceptException(bodyRaises) == FALSE

Connect ==
    /\ CanCall
    /\ store' = Called(ConnectOutcome(store, backend).store)
    /\ dbCall' = [DbIdle EXCEPT !.op = "connect", !.ok = ConnectOutcome(store, backend).ok,
                                !.raised = ExceptException(
                                    BodyRaises("connect", store, backend, "", TRUE))]
    /\ UNCHANGED <<backend, created, everCreated>>

Disconnect ==
    /\ CanCall
    /\ store' = Called(DisconnectOutcome(store).store)
    /\ dbCall' = [DbIdle EXCEPT !.op = "disconnect", !.ok = DisconnectOutcome(store).ok,
                                !.raised = ExceptException(
                                    BodyRaises("disconnect", store, backend, "", TRUE))]
    /\ UNCHANGED <<backend, created, everCreated>>

\* create_collection(collection_name, dimension)
CreateCollection ==
    /\ CanCall
    /\ \E c \in Collections, dimension \in Dimensions :
         LET out == CreateCollectionOutcome(store, backend, c, dimension)
         IN  /\ store' = Called(out.store)
             /\ backend' = out.backend
             /\ dbCall' = [DbIdle EXCEPT !.op = "create_collection",
                                         !.collection = c, !.ok = out.ok,
                                         !.raised = ExceptException(BodyRaises(
                                            "create_collection", store, backend, c, out.ok))]
             /\ created' = IF out.ok THEN created \cup {c} ELSE created
             /\ everCreated' = IF out.ok THEN everCreated \cup {c} ELSE everCreated

\* insert_document(collection_name, document_id, embedding, metadata)
InsertDocument ==
    /\ CanCall
    /\ \E c \in Collections, id \in StoreIds, a \in InsertArgs :
         LET out == InsertDocumentOutcome(store, backend, c, id, a.embedding, a.metadata)
         IN  /\ store' = Called(store)
             /\ backend' = out.backend
             /\ dbCall' = [DbIdle EXCEPT !.op = "insert_document", !.collection = c,
                                         !.id = id, !.embedding = a.embedding,
                                         !.metadata = a.metadata, !.ok = out.ok,
                                         !.raised = ExceptException(BodyRaises(
                                            "insert_document", store, backend, c, out.ok))]
             /\ UNCHANGED <<created, everCreated>>

\* search(collection_name, query_embedding, limit, filters=None)
Search ==
    /\ CanCall
    /\ \E c \in Collections, q \in Vecs, limit \in 1..MaxLimit :
         \E hits \in SearchOutcomes(store, backend, c, q, limit) :
             /\ store' = Called(store)
             /\ dbCall' = [DbIdle EXCEPT !.op = "search", !.collection = c,
                                         !.query = q, !.limit = limit,
                                         !.ok = TRUE, !.hits = hits,
                                         !.raised = ExceptException(BodyRaises(
                                            "search", store, backend, c, TRUE))]
             /\ UNCHANGED <<backend, created, everCreated>>

\* delete_document(collection_name, document_id)
DeleteDocument ==
    /\ CanCall
    /\ \E c \in Collections, id \in StoreIds :
         LET out == IF SessionUsable(store, backend)
                    THEN DeleteDocumentBackend(store.db_type, backend, c, id)
                    ELSE [ok |-> FALSE, backend |-> backend]
         IN  /\ store' = Called(store)
             /\ backend' = out.backend
             /\ dbCall' = [DbIdle EXCEPT !.op = "delete_document", !.collection = c,
                                         !.id = id, !.ok = out.ok,
                                         !.raised = ExceptException(BodyRaises(
                                            "delete_document", store, backend, c, out.ok))]
             /\ UNCHANGED <<created, everCreated>>

\* delete_collection(collection_name): the tracking entry goes when it succeeds
DeleteCollection ==
    /\ CanCall
    /\ \E c \in Collections :
         \E out \in IF SessionUsable(store, backend)
                    THEN DeleteCollectionOutcomes(store.db_type, backend, c)
                    ELSE {[ok |-> FALSE, backend |-> backend]} :
             /\ store' = Called([store EXCEPT !.collections =
                                    IF out.ok THEN DictDel(@, c) ELSE @])
             /\ backend' = out.backend
             /\ dbCall' = [DbIdle EXCEPT !.op = "delete_collection",
                                         !.collection = c, !.ok = out.ok,
                                         !.raised = ExceptException(BodyRaises(
                                            "delete_collection", store, backend, c, out.ok))]
             /\ created' = IF out.ok THEN created \ {c} ELSE created
             /\ UNCHANGED everCreated

\* Elasticsearch refreshes an index on its own schedule: what was indexed or
\* deleted becomes visible to searches
EsRefresh ==
    /\ store.db_type = "elasticsearch"
    /\ \E name \in DOMAIN backend.es :
         /\ backend.es[name].searchable # backend.es[name].docs
         /\ backend' = [backend EXCEPT !.es[name].searchable = backend.es[name].docs]
    /\ UNCHANGED <<store, dbCall, created, everCreated>>

DbNext ==
    \/ Connect
    \/ Disconnect
    \/ CreateCollection
    \/ InsertDocument
    \/ Search
    \/ DeleteDocument
    \/ DeleteCollection
    \/ EsRefresh

(***************************************************************************)
(* The pipeline of main.py for one source: crawl (WebCrawler.crawl with    *)
(* the document tracker), preprocess (MarkdownProcessor.process), embed    *)
(* (generate_embeddings of GraniteEmbedder, which main.py uses, or of      *)
(* EnhancedGraniteEmbedder) and vectordb (store_embeddings).  The          *)
(* embedding service answers every request.                                *)
(***************************************************************************)
MaxRuns == 2

\* the source, which is also the collection name (run_vectordb_step)
PipelineSource == "langchain"

\* the pages of the source, by the file name crawl() derives from the url, in
\* the order of the url list
PageSeq == <<"docs_intro", "docs_api">>

Pages == {PageSeq[i] : i \in DOMAIN PageSeq}

Embedders == {"granite", "enhanced"}

\* the embedding service: a function of the text
EmbedText(content) ==
    CASE content = "doc" -> <<1, 0>>
      [] content = "dot" -> <<3, 4>>
      [] OTHER           -> <<0, 1>>

\* MarkdownProcessor.process_document and _process_and_save_document: on the
\* one-line plain texts of Contents the cleaning patterns match nothing, and
\* the title is the first line
ProcessDocument(content, page) ==
    [title    |-> content,
     summary  |-> content,
     content  |-> content,
     metadata |-> [length |-> Len(content), language |-> "None",
                   source_file |-> page \o ".md"]]

\* GraniteEmbedder._embed_and_save_document: the processed document with
\* its embedding (no file for an empty content)
GraniteEmbedded(data) ==
    [title |-> data.title, summary |-> data.summary, content |-> data.content,
     metadata |-> data.metadata, embedding |-> EmbedText(data.content)]

\* EnhancedGraniteEmbedder.process_file and embed_document: content, metadata
\* and one embedded chunk per non-blank chunk; these texts are one chunk
EnhancedEmbedded(data) ==
    [content  |-> data.content,
     metadata |-> data.metadata,
     chunks   |-> IF data.content = "" THEN <<>>
                  ELSE <<[content |-> data.content,
                          embedding |-> EmbedText(data.content)]>>]

\* the pages generate_embeddings calls the embedding model for
PagesToEmbed(embedder, processed, embedded) ==
    IF embedder = "enhanced"
    THEN \* lines 355-359: a page whose *_embedded.json exists is skipped
         {page \in DOMAIN processed : page \notin DOMAIN embedded}
    ELSE \* GraniteEmbedder embeds every processed file with a content
         {page \in DOMAIN processed : processed[page].content # ""}

\* the embedding files after generate_embeddings
EmbedAll(embedder, processed, embedded) ==
    LET todo == PagesToEmbed(embedder, processed, embedded)
    IN  [page \in todo |-> IF embedder = "enhanced"
                           THEN EnhancedEmbedded(processed[page])
                           ELSE GraniteEmbedded(processed[page])] @@ embedded

\* store_embeddings, lines 66-130: the insert_document calls made for one
\* embedding file
InsertsOfFile(page, data) ==
    IF "embedding" \notin DOMAIN data /\ "chunks" \in DOMAIN data
    THEN [i \in DOMAIN data.chunks |->
            [page      |-> page,
             id        |-> page \o "_chunk_" \o ToString(i - 1),
             embedding |-> [nested |-> FALSE, vs |-> <<data.chunks[i].embedding>>],
             metadata  |-> [title    |-> "",
                            summary  |-> "",
                            content  |-> data.chunks[i].content,
                            metadata |-> DictUpdate(
                                [parent_id |-> page, chunk_index |-> i - 1,
                                 chunk_count |-> Len(data.chunks), is_chunk |-> TRUE],
                                data.metadata)]]]
    ELSE IF "embedding" \notin DOMAIN data THEN <<>>
    ELSE <<[page      |-> page,
            id        |-> page,
            embedding |-> [nested |-> FALSE, vs |-> <<data.embedding>>],
            metadata  |-> [title    |-> data.title,
                           summary  |-> data.summary,
                           content  |-> data.content,
                           metadata |-> data.metadata]]>>

RECURSIVE InsertsOfFiles(_, _)
\* the insert_document calls for the embedding files of the pages in seq
InsertsOfFiles(seq, embedded) ==
    IF seq = <<>> THEN <<>>
    ELSE (IF Head(seq) \in DOMAIN embedded
          THEN InsertsOfFile(Head(seq), embedded[Head(seq)])
          ELSE <<>>) \o InsertsOfFiles(Tail(seq), embedded)

RECURSIVE InsertEach(_, _, _, _)
\* the loop of store_embeddings over the calls: the backend afterwards and
\* the pages with a call that returned True
InsertEach(calls, st, b, c) ==
    IF calls = <<>> THEN [backend |-> b, stored |-> {}]
    ELSE LET call == Head(calls)
             out  == InsertDocumentOutcome(st, b, c, call.id, call.embedding, call.metadata)
             rest == InsertEach(Tail(calls), st, out.backend, c)
         IN  [backend |-> rest.backend,
              stored  |-> rest.stored \cup (IF out.ok THEN {call.page} ELSE {})]

\* store_embeddings as a whole, on a new adapter: the adapter and backend
\* afterwards, whether the collection was created, the pages insert_document
\* was called for and the pages stored
StoreEmbeddingsOutcome(db_type, b, embedded, c) ==
    LET con   == ConnectOutcome(NewStore(db_type), b)
        crt   == CreateCollectionOutcome(con.store, b, c, EmbeddingWidth)
        calls == InsertsOfFiles(PageSeq, embedded)
        ins   == InsertEach(calls, crt.store, crt.backend, c)
    IN  IF ~con.ok
        THEN [store |-> con.store, backend |-> b, created |-> FALSE,
              called |-> {}, stored |-> {}]
        ELSE IF ~crt.ok
        THEN [store |-> DisconnectOutcome(crt.store).store, backend |-> crt.backend,
              created |-> FALSE, called |-> {}, stored |-> {}]
        ELSE [store |-> DisconnectOutcome(crt.store).store, backend |-> ins.backend,
              created |-> TRUE,
              called |-> {calls[i].page : i \in DOMAIN calls},
              stored |-> ins.stored]

RECURSIVE CrawlPages(_, _, _)
\* WebCrawler.crawl, lines 168-200, over the pages of seq: st holds the ledger
\* file, the clock and the crawled directory; a page that was not fetched is
\* passed over, a new or changed one is written
CrawlPages(seq, fetched, st) ==
    IF seq = <<>> THEN st
    ELSE LET page == Head(seq)
         IN  IF page \notin fetched THEN CrawlPages(Tail(seq), fetched, st)
             ELSE LET content == st.site[page]
                      out == UpdateDocumentOutcome(st.file, page, content,
                                 [url |-> page, title |-> content], NowIso(st.clock + 1))
                  IN  CrawlPages(Tail(seq), fetched,
                        [st EXCEPT !.file = out.file,
                                   !.clock = @ + 1,
                                   !.crawled = IF out.ret[1] \/ out.ret[2]
                                               THEN DictSet(@, page, content) ELSE @])

\* what a run has done so far
NoLog == [modified |-> {}, fetched |-> {}, embedCalls |-> {}, insertCalls |-> {},
          stored |-> {}]

PlIdle ==
    [run |-> 0, phase |-> "idle", embedder |-> "granite",
     site |-> [page \in Pages |-> "doc"], modified |-> {},
     crawled |-> EmptyDict, processed |-> EmptyDict, embedded |-> EmptyDict,
     log |-> [r \in 1..MaxRuns |-> NoLog]]

\* before the first run: empty data directories, no ledger, an empty database
PlInit ==
    /\ pl \in {[PlIdle EXCEPT !.embedder = e, !.site = site] :
                 e \in Embedders, site \in [Pages -> Contents]}
    /\ store \in {NewStore(t) : t \in DbTypes}
    /\ backend \in {NewBackend(up) : up \in BOOLEAN}
    /\ dbCall = DbIdle
    /\ created = {}
    /\ everCreated = {}

\* between two runs the site changes a page
ModifySite ==
    /\ pl.phase = "vectordb"
    /\ pl.run < MaxRuns
    /\ \E page \in Pages \ pl.modified :
       \E content \in Contents \ {pl.site[page]} :
         pl' = [pl EXCEPT !.site[page] = content, !.modified = @ \cup {page}]
    /\ UNCHANGED <<ledgers, clock, store, backend, dbCall, created, everCreated>>

\* run_crawl_step: WebCrawler.crawl over the urls of the source; any of the
\* pages may fail to load
RunCrawlStep ==
    /\ pl.phase \in {"idle", "vectordb"}
    /\ pl.run < MaxRuns
    /\ \E fetched \in SUBSET Pages :
         LET out == CrawlPages(PageSeq, fetched,
                       [file |-> ledgers[PipelineSource], clock |-> clock,
                        site |-> pl.site, crawled |-> pl.crawled])
         IN  /\ ledgers' = [ledgers EXCEPT ![PipelineSource] = out.file]
             /\ clock' = out.clock
             /\ pl' = [pl EXCEPT !.run = @ + 1, !.phase = "crawl",
                                 !.crawled = out.crawled, !.modified = {},
                                 !.log[pl.run + 1] =
                                     [NoLog EXCEPT !.modified = pl.modified,
                                                   !.fetched = fetched]]
    /\ UNCHANGED <<store, backend, dbCall, created, everCreated>>

\* run_process_step: MarkdownProcessor.process rewrites the processed file of
\* every crawled file
RunProcessStep ==
    /\ pl.phase = "crawl"
    /\ pl' = [pl EXCEPT !.phase = "preprocess",
                        !.processed = [page \in DOMAIN pl.crawled |->
                                         ProcessDocument(pl.crawled[page], page)] @@ @]
    /\ UNCHANGED <<ledgers, clock, store, backend, dbCall, created, everCreated>>

\* run_embed_step: generate_embeddings over the processed directory
RunEmbedStep ==
    /\ pl.phase = "preprocess"
    /\ pl' = [pl EXCEPT !.phase = "embed",
                        !.embedded = EmbedAll(pl.embedder, pl.processed, @),
                        !.log[pl.run].embedCalls =
                            PagesToEmbed(pl.embedder, pl.processed, pl.embedded)]
    /\ UNCHANGED <<ledgers, clock, store, backend, dbCall, created, everCreated>>

\* run_vectordb_step: store_embeddings over the embeddings directory, when it
\* has files
RunVectordbStep ==
    /\ pl.phase = "embed"
    /\ IF pl.embedded = EmptyDict
       THEN /\ pl' = [pl EXCEPT !.phase = "vectordb"]
            /\ UNCHANGED <<store, backend, created, everCreated>>
       ELSE LET out == StoreEmbeddingsOutcome(store.db_type, backend, pl.embedded,
                                              PipelineSource)
            IN  /\ pl' = [pl EXCEPT !.phase = "vectordb",
                                    !.log[pl.run].insertCalls = out.called,
                                    !.log[pl.run].stored = out.stored]
                /\ store' = out.store
                /\ backend' = out.backend
                /\ created' = IF out.created THEN created \cup {PipelineSource}
                              ELSE created
                /\ everCreated' = IF out.created THEN everCreated \cup {PipelineSource}
                                  ELSE everCreated
    /\ UNCHANGED <<ledgers, clock, dbCall>>

PlNext ==
    \/ ModifySite
    \/ RunCrawlStep
    \/ RunProcessStep
    \/ RunEmbedStep
    \/ RunVectordbStep

(***************************************************************************)
(* search_documents of vectordb/integration.py: one call on a collection   *)
(* that holds the chunks of a document and one more record.                *)
(***************************************************************************)
\* limit * 3, line 182
ChunkFactor == 3

\* sorted_chunks[:3], line 250
MaxGroupChunks == 3

\* the backends search_documents is called on: after create_collection and
\* one insert_document per record, collection "docs" holds the four chunks
\* of document "x", each with a vector of its own, and one more record: a
\* whole document or a chunk of "y"
PopulatedBackends(db_type) ==
    LET SearchVecs == {<<1, 0>>, <<4, 3>>, <<3, 4>>, <<0, 1>>}
        ChunkIndexes == 0..3
        ChunkRecord(i, v) ==
            [id        |-> "x_chunk_" \o ToString(i),
             embedding |-> [nested |-> FALSE, vs |-> <<v>>],
             metadata  |-> [title |-> "X", content |-> "c" \o ToString(i),
                            is_chunk |-> TRUE, parent_id |-> "x", chunk_index |-> i]]
        OtherRecords ==
            {[id |-> id, embedding |-> [nested |-> FALSE, vs |-> <<v>>],
              metadata |-> [title |-> "Doc", content |-> "whole"]] :
                id \in {"x", "z"}, v \in {<<1, 0>>, <<0, 1>>}}
            \cup
            {[id |-> "y_chunk_0", embedding |-> [nested |-> FALSE, vs |-> <<v>>],
              metadata |-> [title |-> "Y", content |-> "y0",
                            is_chunk |-> TRUE, parent_id |-> "y", chunk_index |-> 0]] :
                v \in {<<1, 0>>, <<0, 1>>}}
        RECURSIVE Populated(_, _)
        Populated(b, records) ==
            IF records = <<>> THEN b
            ELSE Populated(InsertBackend(db_type, b, "docs", records[1].id,
                                         records[1].embedding,
                                         records[1].metadata).backend,
                           Tail(records))
    IN  {Populated(CreateCollectionBackend(db_type, NewBackend(TRUE), "docs",
                                           EmbeddingWidth),
                   Append([k \in 1..4 |-> ChunkRecord(k - 1, at[k - 1])], other)) :
            at \in {f \in [ChunkIndexes -> SearchVecs] :
                       \A i, j \in ChunkIndexes : i # j => f[i] # f[j]},
            other \in OtherRecords}

\* the limit passed to vector_db.search, line 182
RequestedLimitAlwaysMore(limit, group_chunks) == limit * ChunkFactor

RequestedLimit(limit, group_chunks) ==
    IF group_chunks THEN limit * ChunkFactor ELSE limit

\* lines 222-223: the parent's similarity after one more chunk
GroupSimilarityLatest(current, similarity) == similarity

GroupSimilarity(current, similarity) ==
    IF similarity > current THEN similarity ELSE current

\* lines 192-228: the loop over the hits.  keys: the keys of grouped_results
\* in insertion order; raised: a statement of the loop raised
GroupedResults(results) ==
    LET RECURSIVE Loop(_, _)
        Loop(i, g) ==
            IF i > Len(results) \/ g.raised THEN g
            ELSE LET result    == results[i]
                     metadata  == result.metadata
                     is_chunk  == DictGet(metadata, "is_chunk", FALSE)
                     parent_id == DictGet(metadata, "parent_id", "")
                     doc_id    == result.id
                     g1 == IF parent_id \in DOMAIN g.entries THEN g
                           ELSE [g EXCEPT
                                   !.keys = Append(@, parent_id),
                                   !.entries = DictSet(@, parent_id,
                                       [id         |-> parent_id,
                                        title      |-> result.title,
                                        content    |-> "",
                                        chunks     |-> <<>>,
                                        similarity |-> result.similarity])]
                     e  == g1.entries[parent_id]
                 IN  Loop(i + 1,
                       IF is_chunk
                       THEN IF parent_id = "" THEN g
                            ELSE IF "chunks" \notin DOMAIN e
                                 THEN [g1 EXCEPT !.raised = TRUE]
                                 ELSE [g1 EXCEPT !.entries = DictSet(@, parent_id,
                                        [e EXCEPT
                                          !.chunks = Append(@,
                                             [content    |-> result.content,
                                              similarity |-> result.similarity,
                                              index      |-> DictGet(metadata,
                                                               "chunk_index", 0)]),
                                          !.similarity = GroupSimilarity(
                                                            @, result.similarity)])]
                       ELSE IF doc_id # "" /\ doc_id \notin DOMAIN g.entries
                            THEN [g EXCEPT !.keys = Append(@, doc_id),
                                           !.entries = DictSet(@, doc_id, result)]
                            ELSE g)
    IN  Loop(1, [keys |-> <<>>, entries |-> EmptyDict, raised |-> FALSE])

\* sorted(seq, key=...), keys[i] being the key of seq[i]: ascending by key,
\* elements of equal key in their original order
StableSort(seq, keys) ==
    LET n == Len(seq)
        pos(i) == 1 + Cardinality({j \in 1..n :
                        \/ keys[j] < keys[i]
                        \/ keys[j] = keys[i] /\ j < i})
    IN  [p \in 1..n |-> seq[CHOOSE i \in 1..n : pos(i) = p]]

\* lines 231-235: key similarity with reverse=True, which keeps the original
\* order of equal elements
BySimilarityAscending(x) == x.similarity

BySimilarityDescending(x) == 0 - x.similarity

\* line 241: the chunks of a group sorted by index
ChunksAsCollected(chunks) == chunks

ChunksByIndex(chunks) == StableSort(chunks, [i \in 1..Len(chunks) |-> chunks[i].index])

\* '\n\n'.join(...), lines 244-247
RECURSIVE JoinContents(_)
JoinContents(chunks) ==
    IF chunks = <<>> THEN ""
    ELSE IF Len(chunks) = 1 THEN chunks[1].content
    ELSE chunks[1].content \o "\n\n" \o JoinContents(Tail(chunks))

\* search_documents(query_embedding, db_type, collection_name, limit,
\* group_chunks) with a backend b: what the call may do.  connected: connect()
\* returned True; requested: the limit given to search; hits: what search
\* returned; raised: the call raised instead of returning
SearchDocumentsOutcomes(db_type, b, c, q, limit, group_chunks) ==
    LET con       == ConnectOutcome(NewStore(db_type), b)
        requested == RequestedLimit(limit, group_chunks)
        NotConnected == [connected |-> FALSE, requested |-> 0, hits |-> <<>>,
                         raised |-> FALSE, result |-> <<>>]
        Returned(results) ==
            LET g == GroupedResults(results)
                \* lines 238-250: a group's content and the chunks it keeps
                CombineChunks(result) ==
                    IF "chunks" \in DOMAIN result /\ result.chunks # <<>>
                    THEN LET sorted_chunks == ChunksByIndex(result.chunks)
                         IN  [result EXCEPT
                                !.content = JoinContents(sorted_chunks),
                                !.chunks = Slice(sorted_chunks, 0, MaxGroupChunks)]
                    ELSE result
                sorted_results ==
                    LET values == [k \in 1..Len(g.keys) |-> g.entries[g.keys[k]]]
                        sorted == StableSort(values, [k \in 1..Len(values) |->
                                        BySimilarityDescending(values[k])])
                    IN  [k \in 1..Len(sorted) |-> CombineChunks(sorted[k])]
            IN  [connected |-> TRUE, requested |-> requested, hits |-> results,
                 raised |-> group_chunks /\ g.raised,
                 result |-> IF ~group_chunks THEN Slice(results, 0, limit)
                            ELSE IF g.raised THEN <<>>
                            ELSE Slice(sorted_results, 0, limit)]
    IN  IF ~con.ok THEN {NotConnected}
        ELSE {Returned(results) :
                results \in SearchOutcomes(con.store, b, c, q, requested)}

\* no search_documents call yet
SdIdle ==
    [phase |-> "idle", query |-> <<>>, limit |-> 0, group_chunks |-> FALSE,
     connected |-> FALSE, requested |-> 0, hits |-> <<>>, raised |-> FALSE,
     result |-> <<>>]

\* search_documents("docs") with a query, a limit and group_chunks
SearchDocuments ==
    /\ sd.phase = "idle"
    /\ \E q \in {<<1, 0>>, <<-1, 0>>}, limit \in 1..MaxLimit, group_chunks \in BOOLEAN :
         \E out \in SearchDocumentsOutcomes(store.db_type, backend, "docs",
                                            q, limit, group_chunks) :
             sd' = [phase |-> "returned", query |-> q, limit |-> limit,
                    group_chunks |-> group_chunks, connected |-> out.connected,
                    requested |-> out.requested, hits |-> out.hits,
                    raised |-> out.raised, result |-> out.result]
    /\ UNCHANGED vars_db

(***************************************************************************)
(* Batch processing: the loops of WebCrawler.crawl,                        *)
(* MarkdownProcessor.process, GraniteEmbedder.generate_embeddings and      *)
(* EnhancedGraniteEmbedder.generate_embeddings.  Each takes the items      *)
(* max_concurrent at a time, makes one awaitable per item of the batch and *)
(* awaits asyncio.gather of them.  status[t] is where the task of item t   *)
(* stands; offset is the loop variable i.                                  *)
(***************************************************************************)
MaxConcurrent == 2

MaxItems == 4

\* asyncio.gather with one awaitable that ends the wait
GatherFirstCompleted(statuses, return_exceptions) ==
    \E k \in DOMAIN statuses : statuses[k] \in {"ok", "failed", "raised"}

\* `await asyncio.gather(*tasks, return_exceptions=...)` resumes: with
\* return_exceptions every task has ended; without it also as soon as one
\* task raised, and then the exception leaves the loop
GatherDone(statuses, return_exceptions) ==
    \/ \A k \in DOMAIN statuses : statuses[k] \in {"ok", "failed", "raised"}
    \/ ~return_exceptions /\ \E k \in DOMAIN statuses : statuses[k] = "raised"

\* a run over n items; crawler.arun may raise, the functions the other
\* runners hand to gather catch every Exception and return "" or None
InitBatch ==
    /\ bt \in {[phase |-> "looping", runner |-> r, max_concurrent |-> m, offset |-> 0,
                 status |-> [t \in 1..n |-> "waiting"]] :
                r \in {"crawl", "process", "embed", "embed_enhanced"},
                m \in 1..MaxConcurrent, n \in 0..MaxItems}
    /\ TrkInit /\ ck = CkIdle /\ DbHeld /\ pl = PlIdle /\ sd = SdIdle
    /\ rt = NoRun /\ wr = NoRun /\ lc = NoRun

NextBatch ==
    /\ bt.phase = "looping"
    /\ LET n     == Len(bt.status)
           batch == {t \in 1..n : bt.offset < t /\ t <= bt.offset + bt.max_concurrent}
           return_exceptions == bt.runner \in {"crawl", "embed_enhanced"}
       IN  \* a task of the batch starts to run
           \/ \E t \in batch :
                /\ bt.status[t] = "waiting"
                /\ bt' = [bt EXCEPT !.status[t] = "running"]
           \* a running task ends: with a result, with a failure value, or raising
           \/ \E t \in batch, end \in {"ok", "failed", "raised"} :
                /\ bt.status[t] = "running"
                /\ end = "raised" => bt.runner = "crawl"
                /\ bt' = [bt EXCEPT !.status[t] = end]
           \* gather resumes the loop, which goes on to the next batch
           \/ /\ bt.offset < n
              /\ GatherDone([t \in batch |-> bt.status[t]], return_exceptions)
              /\ bt' = IF ~return_exceptions /\ \E t \in batch : bt.status[t] = "raised"
                       THEN [bt EXCEPT !.phase = "raised"]
                       ELSE [bt EXCEPT !.offset = @ + bt.max_concurrent]
           \* range(0, len(items), max_concurrent) is exhausted
           \/ /\ bt.offset >= n
              /\ bt' = [bt EXCEPT !.phase = "returned"]
    /\ UNCHANGED <<vars_trk, ck, vars_db, pl, sd, rt, wr, lc>>

SpecBatch == InitBatch /\ [][NextBatch]_vars

(***************************************************************************)
(* EnhancedGraniteEmbedder.embed_document: the chunks of one document      *)
(* after another go to _generate_embedding, which posts the request up to  *)
(* max_retries times.  rt.docs are the documents of one run, each the      *)
(* sequence of its chunks ("text", or "blank" for a chunk that strips to   *)
(* nothing); rt.ended holds one record per finished _generate_embedding    *)
(* call, rt.chunks the chunks that went into a document's 'chunks'.        *)
(***************************************************************************)
MaxRetries == 3
MaxDocs == 2
MaxChunks == 2

\* a wait that grows by two seconds with every attempt
BackoffWaitLinear(attempt) == 2 * attempt

\* wait_time = 2 ** attempt, with attempt the loop variable of range(max_retries)
BackoffWait(attempt) == 2 ^ attempt

InitRetry ==
    /\ rt \in {[phase |-> "embedding", max_retries |-> m, configured |-> g, docs |-> ds,
                d |-> 1, c |-> 1, pc |-> "next", attempt |-> 0, tried |-> 0, waits |-> <<>>,
                chunks |-> {}, ended |-> {}] :
               m \in 1..MaxRetries, g \in BOOLEAN,
               ds \in UNION {[1..n -> UNION {[1..k -> {"text", "blank"}] : k \in 1..MaxChunks}]
                             : n \in 1..MaxDocs}}
    /\ TrkInit /\ ck = CkIdle /\ DbHeld /\ pl = PlIdle /\ sd = SdIdle
    /\ bt = NoRun /\ wr = NoRun /\ lc = NoRun

NextRetry ==
    /\ rt.phase = "embedding"
    /\ LET Ended(ret, tried, waits, kept) ==
               [rt EXCEPT !.pc = "next", !.c = @ + 1,
                          !.tried = tried, !.waits = waits,
                          !.ended = @ \cup {[d |-> rt.d, c |-> rt.c, ret |-> ret,
                                             tried |-> tried, waits |-> waits]},
                          !.chunks = IF kept THEN @ \cup {<<rt.d, rt.c>>} ELSE @]
       IN  \/ \* for chunk in content_chunks: skip a blank one, else call _generate_embedding
              /\ rt.pc = "next"
              /\ rt' = IF rt.c > Len(rt.docs[rt.d])
                       THEN IF rt.d = Len(rt.docs) THEN [rt EXCEPT !.phase = "done"]
                            ELSE [rt EXCEPT !.d = @ + 1, !.c = 1]
                       ELSE IF rt.docs[rt.d][rt.c] = "blank" THEN [rt EXCEPT !.c = @ + 1]
                       ELSE IF ~rt.configured THEN Ended("None", 0, <<>>, FALSE)
                       ELSE [rt EXCEPT !.pc = "request", !.attempt = 0, !.tried = 0,
                                       !.waits = <<>>]
           \/ \* requests.post and what came back
              /\ rt.pc = "request"
              /\ \E response \in {"200 embedding", "200 other", "429", "500", "exception"} :
                    rt' = CASE response = "200 embedding" ->
                                   Ended("embedding", rt.tried + 1, rt.waits, TRUE)
                            [] response \in {"200 other", "500"} ->
                                   Ended("None", rt.tried + 1, rt.waits, FALSE)
                            [] OTHER ->
                                   [rt EXCEPT !.pc = "sleeping", !.tried = @ + 1,
                                              !.waits = Append(@, BackoffWait(rt.attempt))]
           \/ \* asyncio.sleep(wait_time) is over: the next attempt, or the loop is exhausted
              /\ rt.pc = "sleeping"
              /\ rt' = IF rt.attempt + 1 < rt.max_retries
                       THEN [rt EXCEPT !.pc = "request", !.attempt = @ + 1]
                       ELSE Ended("None", rt.tried, rt.waits, FALSE)
    /\ UNCHANGED <<vars_trk, ck, vars_db, pl, sd, bt, wr, lc>>

SpecRetry == InitRetry /\ [][NextRetry]_vars

(***************************************************************************)
(* Two callers of DocumentTracker.update_document on the ledger of one     *)
(* source.  The call reads the file (_load_metadata), changes the loaded   *)
(* dictionary and writes it back (_save_metadata); nothing holds the file  *)
(* in between, so another caller's read or write can fall between the two. *)
(* wr.file is the ledger file, wr.writers[w] where writer w stands,        *)
(* wr.updated the ids whose update_document has returned, wr.overlapped    *)
(* whether a call ever read the file while another call was between its    *)
(* read and its write, and wr.last the call that wrote last.               *)
(***************************************************************************)
MaxWrites == 3

InitWriters ==
    /\ wr \in {[phase |-> "writing", file |-> f, started |-> 0, updated |-> {},
                overlapped |-> FALSE, last |-> <<>>,
                writers |-> [w \in 1..2 |-> [pc |-> "idle"]]] :
               f \in {NoFile,
                      SaveMetadata([documents  |-> UpdateDocs(EmptyDict, "docs_intro",
                                                              ContentHash("doc"), NowIso(0),
                                                              EmptyDict),
                                    last_crawl |-> NowIso(0)])}}
    /\ TrkInit /\ ck = CkIdle /\ DbHeld /\ pl = PlIdle /\ sd = SdIdle
    /\ bt = NoRun /\ rt = NoRun /\ lc = NoRun

NextWriters ==
    /\ wr.phase = "writing"
    /\ \E w \in 1..2 :
          \/ \* source_metadata = self._load_metadata(source)
             /\ wr.writers[w].pc = "idle"
             /\ wr.started < MaxWrites
             /\ \E document_id \in DocIds, content \in Contents, metadata \in Metadatas :
                   wr' = [wr EXCEPT
                            !.started = @ + 1,
                            !.overlapped = @ \/ wr.writers[3 - w].pc = "loaded",
                            !.writers[w] = [pc |-> "loaded", read |-> wr.file,
                                            document_id |-> document_id,
                                            content |-> content, metadata |-> metadata]]
          \/ \* the record is set in the loaded dictionary; _save_metadata; return
             /\ wr.writers[w].pc = "loaded"
             /\ LET me == wr.writers[w]
                    outcome == UpdateDocumentOutcome(me.read, me.document_id, me.content,
                                                     me.metadata, NowIso(wr.started))
                IN  wr' = [wr EXCEPT
                             !.file = outcome.file,
                             !.updated = @ \cup {me.document_id},
                             !.last = <<me>>,
                             !.writers[w] = [pc |-> "idle"]]
    /\ UNCHANGED <<vars_trk, ck, vars_db, pl, sd, bt, rt, lc>>

SpecWriters == InitWriters /\ [][NextWriters]_vars

(***************************************************************************)
(* The functions of vectordb/integration.py, called one after another on   *)
(* one database: store_embeddings over a directory with the enhanced       *)
(* embedding file of docs_intro (and, or not, the plain one of docs_api),  *)
(* search_documents, delete_document and delete_collection.  Each call     *)
(* makes its own adapter.  lc.calls are the adapter methods the last call  *)
(* invoked, in order; lc.latest is the number of chunks in the docs_intro  *)
(* file of the last store_embeddings that stored it.                       *)
(***************************************************************************)
MaxIntegrationCalls == 3
MaxFileChunks == 3

\* the adapter methods a function of integration.py invokes, with the
\* disconnect left out when the body raises
IntegrationCallsUnguarded(fn, connected, collection_made, inserts, raised) ==
    IF ~connected THEN <<"connect">>
    ELSE <<"connect">>
         \o (IF fn = "store_embeddings"
             THEN <<"create_collection">>
                  \o (IF collection_made THEN [i \in 1..inserts |-> "insert_document"] ELSE <<>>)
             ELSE IF fn = "search_documents" THEN <<"search">>
             ELSE <<fn>>)
         \o (IF raised THEN <<>> ELSE <<"disconnect">>)

\* the adapter methods a function of integration.py invokes: connect before
\* the try; when it returned False nothing else; otherwise the body and, in
\* the finally clause, disconnect, whether the body returned or raised
IntegrationCalls(fn, connected, collection_made, inserts, raised) ==
    IF ~connected THEN <<"connect">>
    ELSE <<"connect">>
         \o (IF fn = "store_embeddings"
             THEN <<"create_collection">>
                  \o (IF collection_made THEN [i \in 1..inserts |-> "insert_document"] ELSE <<>>)
             ELSE IF fn = "search_documents" THEN <<"search">>
             ELSE <<fn>>)
         \o <<"disconnect">>

InitIntegration ==
    /\ lc = [phase |-> "ready", n |-> 0, fn |-> "none", connected |-> FALSE,
             raised |-> FALSE, calls |-> <<>>, limit |-> 0, group_chunks |-> FALSE,
             hits |-> <<>>, result |-> <<>>, latest |-> 0]
    /\ DbInit
    /\ TrkInit /\ ck = CkIdle /\ pl = PlIdle /\ sd = SdIdle
    /\ bt = NoRun /\ rt = NoRun /\ wr = NoRun

NextIntegration ==
    /\ lc.phase = "ready"
    /\ LET db_type == store.db_type
           con     == ConnectOutcome(NewStore(db_type), backend)
           left    == IF con.ok THEN DisconnectOutcome(con.store).store ELSE con.store
           Done(fn, collection_made, inserts, raised) ==
               [lc EXCEPT !.n = @ + 1, !.fn = fn, !.connected = con.ok, !.raised = raised,
                          !.calls = IntegrationCalls(fn, con.ok, collection_made, inserts, raised),
                          !.limit = 0, !.group_chunks = FALSE, !.hits = <<>>,
                          !.result = <<>>]
       IN  \/ \* store_embeddings(input_dir, db_type, "docs"); os.listdir raises
              \* when the directory does not exist
              /\ lc.n < MaxIntegrationCalls
              /\ \E m \in 1..MaxFileChunks, plain \in BOOLEAN, dir_exists \in BOOLEAN :
                    LET vec == <<(<<1, 0>>), (<<4, 3>>), (<<3, 4>>), (<<0, 1>>)>>
                        intro == [content  |-> "doc",
                                  metadata |-> ProcessDocument("doc", "docs_intro").metadata,
                                  chunks   |-> [i \in 1..m |->
                                                  [content   |-> "c" \o ToString(i - 1),
                                                   embedding |-> vec[((i - 1) % 4) + 1]]]]
                        embedded == IF ~dir_exists THEN EmptyDict
                                    ELSE IF plain
                                    THEN [page \in {"docs_intro", "docs_api"} |->
                                            IF page = "docs_intro" THEN intro
                                            ELSE GraniteEmbedded(
                                                     ProcessDocument("dot", "docs_api"))]
                                    ELSE [page \in {"docs_intro"} |-> intro]
                        out == StoreEmbeddingsOutcome(db_type, backend, embedded, "docs")
                    IN  /\ store' = out.store
                        /\ backend' = out.backend
                        /\ lc' = [Done("store_embeddings", out.created,
                                       Len(InsertsOfFiles(PageSeq, embedded)),
                                       out.created /\ ~dir_exists)
                                    EXCEPT !.latest = IF "docs_intro" \in out.stored
                                                      THEN m ELSE @]
           \/ \* search_documents(query_embedding, db_type, "docs", limit, group_chunks)
              /\ lc.n < MaxIntegrationCalls
              /\ \E q \in {<<1, 0>>, <<0, 1>>}, limit \in 1..MaxLimit, group_chunks \in BOOLEAN :
                 \E out \in SearchDocumentsOutcomes(db_type, backend, "docs", q, limit,
                                                    group_chunks) :
                    /\ store' = left
                    /\ backend' = backend
                    /\ lc' = [Done("search_documents", FALSE, 0, out.raised)
                                EXCEPT !.limit = limit, !.group_chunks = group_chunks,
                                       !.hits = out.hits,
                                       !.result = out.result]
           \/ \* delete_document(document_id, db_type, "docs")
              /\ lc.n < MaxIntegrationCalls
              /\ \E id \in {"docs_intro", "docs_api", "docs_intro_chunk_0"} :
                    LET out == IF con.ok /\ SessionUsable(con.store, backend)
                               THEN DeleteDocumentBackend(db_type, backend, "docs", id)
                               ELSE [ok |-> FALSE, backend |-> backend]
                    IN  /\ store' = left
                        /\ backend' = out.backend
                        /\ lc' = Done("delete_document", FALSE, 0, FALSE)
           \/ \* delete_collection("docs", db_type)
              /\ lc.n < MaxIntegrationCalls
              /\ \E out \in IF con.ok /\ SessionUsable(con.store, backend)
                            THEN DeleteCollectionOutcomes(db_type, backend, "docs")
                            ELSE {[ok |-> FALSE, backend |-> backend]} :
                    /\ store' = left
                    /\ backend' = out.backend
                    /\ lc' = Done("delete_collection", FALSE, 0, FALSE)
           \/ \* Elasticsearch refreshes the index between two calls
              /\ EsRefresh
              /\ UNCHANGED lc
    /\ UNCHANGED <<vars_trk, ck, dbCall, created, everCreated, pl, sd, bt, rt, wr>>

SpecIntegration == InitIntegration /\ [][NextIntegration]_vars

(***************************************************************************)
(* Claims about the tracker, checked under Spec.                           *)
(***************************************************************************)
LastSource == lastCall.call.source

LastId == lastCall.call.document_id

\* the documents mapping update_document or mark_document_deleted loaded
DocsBefore == LoadMetadata(lastCall.before[LastSource]).documents

DocsAfter == LoadMetadata(ledgers[LastSource]).documents

\* the last two calls were update_document for the same source and id with the same content
TwiceInARow ==
    /\ lastCall.call.op = "update_document"
    /\ prevCall.op = "update_document"
    /\ prevCall.source = lastCall.call.source
    /\ prevCall.document_id = lastCall.call.document_id
    /\ prevCall.content = lastCall.call.content

\* C1: update_document called twice in a row for the same (source, document_id)
\* with identical content returns (False, False) the second time and leaves the
\* record exactly as the first call left it, whatever metadata the second call passes.
C1_SecondIdenticalUpdateIsNoOp ==
    TwiceInARow =>
        /\ lastCall.ret = <<FALSE, FALSE>>
        /\ LastId \in DOMAIN DocsBefore
        /\ LastId \in DOMAIN DocsAfter
        /\ DocsAfter[LastId] = DocsBefore[LastId]

C1_Witness ==
    /\ TwiceInARow
    /\ lastCall.call.metadata # prevCall.metadata
    /\ lastCall.call.metadata # EmptyDict
    /\ lastCall.ret = <<FALSE, FALSE>>

\* the last call was update_document for an id with a record whose hash differs
ChangedCase ==
    /\ lastCall.call.op = "update_document"
    /\ LastId \in DOMAIN DocsBefore
    /\ DocsBefore[LastId].content_hash # ContentHash(lastCall.call.content)

\* C2: update_document for an id that has a record with a different content hash
\* returns (False, True), adds exactly 1 to version, stores the new hash and keeps
\* created_at.
C2_ChangedContentBumpsVersion ==
    ChangedCase =>
        /\ lastCall.ret = <<FALSE, TRUE>>
        /\ DocsAfter[LastId].version = DocsBefore[LastId].version + 1
        /\ DocsAfter[LastId].content_hash = ContentHash(lastCall.call.content)
        /\ DocsAfter[LastId].created_at = DocsBefore[LastId].created_at

C2_Witness ==
    /\ ChangedCase
    /\ DocsAfter[LastId].version = 3
    /\ DocsAfter[LastId].created_at < DocsAfter[LastId].updated_at

\* the last call was update_document for an id with no record in the source's ledger
NewCase ==
    /\ lastCall.call.op = "update_document"
    /\ LastId \notin DOMAIN DocsBefore

\* C3: update_document for an id without a record returns (True, True) and
\* persists a record with version 1 and created_at = updated_at; the other
\* records of the source and the ledgers of the other sources are unchanged.
C3_NewDocumentGetsVersionOne ==
    NewCase =>
        /\ lastCall.ret = <<TRUE, TRUE>>
        /\ ledgers[LastSource].state = "valid"
        /\ DOMAIN DocsAfter = DOMAIN DocsBefore \cup {LastId}
        /\ DocsAfter[LastId].version = 1
        /\ DocsAfter[LastId].created_at = DocsAfter[LastId].updated_at
        /\ DocsAfter[LastId].content_hash = ContentHash(lastCall.call.content)
        /\ \A d \in DOMAIN DocsBefore : DocsAfter[d] = DocsBefore[d]
        /\ \A s \in Sources \ {LastSource} : ledgers[s] = lastCall.before[s]

C3_Witness ==
    /\ NewCase
    /\ DOMAIN DocsBefore # {}
    /\ \E s \in Sources \ {LastSource} : ledgers[s].state = "valid"


\* C19: on an uncorrupted ledger no record is ever removed: the ids of a
\* source never shrink; mark_document_deleted of a present id returns true
\* and only sets deleted and deleted_at of that record; of an absent id it
\* returns false and leaves the ledgers as they were.
C19_RecordsAreNeverRemoved ==
    lastCall.call.op # "none" =>
        /\ DOMAIN DocsBefore \subseteq DOMAIN DocsAfter
        /\ lastCall.call.op = "mark_document_deleted" =>
              IF LastId \in DOMAIN DocsBefore
              THEN /\ lastCall.ret = <<TRUE>>
                   /\ DOMAIN DocsAfter = DOMAIN DocsBefore
                   /\ \A id \in DOMAIN DocsBefore \ {LastId} :
                         DocsAfter[id] = DocsBefore[id]
                   /\ DocsAfter[LastId].deleted
                   /\ \A f \in DOMAIN DocsBefore[LastId] \ {"deleted", "deleted_at"} :
                         DocsAfter[LastId][f] = DocsBefore[LastId][f]
              ELSE /\ lastCall.ret = <<FALSE>>
                   /\ ledgers = lastCall.before

C19_Witness ==
    /\ lastCall.call.op = "mark_document_deleted"
    /\ lastCall.ret = <<TRUE>>
    /\ DocsBefore[LastId].version = 2
    /\ DocsAfter[LastId].version = 2
    /\ DocsAfter[LastId].deleted

(***************************************************************************)
(* Claims about the tracker with a damaged ledger, checked under           *)
(* SpecLedger.                                                             *)
(***************************************************************************)
\* C18: every tracker operation treats a corrupted ledger (a file that is
\* not valid JSON, or valid JSON without the `documents` mapping) as empty
\* and does not raise: update_document returns (true, true) and writes
\* version 1, get_document_metadata returns None, get_all_document_ids
\* returns [], mark_document_deleted returns false.
C18_CorruptedLedgerTreatedAsEmpty ==
    [][ ( /\ clock' = clock + 1
          /\ ledgers[lastCall'.call.source].state \in {"garbled", "nodocs"} )
        => /\ ~lastCall'.raised
           /\ CASE lastCall'.call.op = "update_document" ->
                     LET after == LoadMetadata(ledgers'[lastCall'.call.source])
                         id    == lastCall'.call.document_id
                     IN  /\ lastCall'.ret = <<TRUE, TRUE>>
                         /\ id \in DOMAIN after.documents
                         /\ after.documents[id].version = 1
                [] lastCall'.call.op = "get_document_metadata" ->
                     lastCall'.ret = <<"None">>
                [] lastCall'.call.op = "get_all_document_ids" ->
                     lastCall'.ret = <<"ids", {}>>
                [] lastCall'.call.op = "mark_document_deleted" ->
                     lastCall'.ret = <<FALSE>> ]_vars

\* C20: for every (source, id), across any sequence of tracker operations,
\* also when a ledger was found corrupted and reset, the version is an
\* integer of at least 1 and never lower than the version seen before.
C20_VersionNeverDecreases ==
    [][ clock' = clock + 1 =>
          \A s \in Sources, id \in DocIds :
              LET loaded == LoadMetadata(ledgers'[s])
              IN  ("documents" \in DOMAIN loaded /\ id \in DOMAIN loaded.documents)
                  => /\ loaded.documents[id].version \in Nat \ {0}
                     /\ loaded.documents[id].version >= observed[s][id] ]_vars

(***************************************************************************)
(* Claims about the chunker, checked under SpecChunk.                      *)
(***************************************************************************)
\* chunk_text returned a list
CkReturned == ck.phase = "returned" /\ ~ck.out.raised

\* C6: the element at position i of the list chunk_text returns has chunk_index i
\* (from 0) and chunk_count equal to the length of the list, also when the
\* caller's metadata has chunk_index or chunk_count keys.
C6_ChunkIndexIsPosition ==
    CkReturned =>
        \A k \in 1..Len(ck.out.result) :
            /\ ck.out.result[k].metadata.chunk_index = k - 1
            /\ ck.out.result[k].metadata.chunk_count = Len(ck.out.result)
            /\ 0 <= ck.out.result[k].metadata.chunk_index
            /\ ck.out.result[k].metadata.chunk_index < ck.out.result[k].metadata.chunk_count

C6_Witness ==
    /\ CkReturned
    /\ Len(ck.out.result) >= 3
    /\ "chunk_index" \in DOMAIN ck.metadata
    /\ ck.out.result[3].metadata.chunk_index = 2
    /\ ck.out.result[3].metadata.title = ck.metadata.title

\* C7: with 0 <= overlap < max_chunk_size and min_chunk_size <= max_chunk_size,
\* every chunk chunk_text emits has len(content) <= max_chunk_size.
C7_ChunksWithinMaxSize ==
    (/\ CkReturned
     /\ ck.cfg.overlap < ck.cfg.max_chunk_size
     /\ ck.cfg.min_chunk_size <= ck.cfg.max_chunk_size) =>
        \A k \in 1..Len(ck.out.result) :
            Len(ck.out.result[k].content) <= ck.cfg.max_chunk_size

\* C8: for every text and configuration chunk_text returns without raising, and
\* for a text with a non-whitespace character the list returned is not empty.
C8_CascadeIsTotal ==
    ck.phase = "returned" =>
        /\ ~ck.out.raised
        /\ ~IsBlank(ck.text) => Len(ck.out.result) > 0

\* C25: no chunk chunk_text emits is empty or made of whitespace only, for
\* every text and every combination of respect_sections, respect_paragraphs
\* and respect_sentences; and an empty text yields an empty list.
C25_NoWhitespaceOnlyChunk ==
    CkReturned =>
        /\ \A k \in 1..Len(ck.out.result) :
              \E i \in 1..Len(ck.out.result[k].content) :
                  ~IsSpace(ck.out.result[k].content[i])
        /\ ck.text = <<>> => ck.out.result = <<>>

(***************************************************************************)
(* Claims about the vector store adapters (specification SpecDB).          *)
(***************************************************************************)
\* the step is a call on the adapter (not a step of the backend alone)
IsDbCallStep == store'.calls = store.calls + 1

\* the last call was a successful insert_document
InsertedOk == dbCall.op = "insert_document" /\ dbCall.ok

\* C5: in every adapter, once create_collection has succeeded for c and
\* insert_document(c, id, v, m) has returned True, the next call
\* search(c, v, limit >= 1, None) returns a non-empty list whose first hit has
\* the id just inserted, and no hit of the list has a greater similarity.
C5_InsertThenSearchFindsDocument ==
    [][ ( /\ InsertedOk
          /\ dbCall.collection \in created
          /\ IsDbCallStep
          /\ dbCall'.op = "search"
          /\ dbCall'.collection = dbCall.collection
          /\ dbCall'.query = EmbeddingVector(dbCall.embedding) )
        => /\ dbCall'.hits # <<>>
           /\ dbCall'.hits[1].id = dbCall.id
           /\ \A k \in DOMAIN dbCall'.hits :
                dbCall'.hits[1].similarity >= dbCall'.hits[k].similarity ]_vars

\* C9: in every adapter insert_document is an upsert keyed by (collection,
\* id): when a successful insert_document into a created collection is followed by an insert_document of
\* the same collection and id, the second one returns True too, the collection
\* holds the same ids as before it, and the record of the id has the second
\* call's values.
C9_InsertDocumentIsUpsert ==
    [][ ( /\ InsertedOk
          /\ dbCall.collection \in created
          /\ IsDbCallStep
          /\ dbCall'.op = "insert_document"
          /\ dbCall'.collection = dbCall.collection
          /\ dbCall'.id = dbCall.id )
        => LET before == RecordsOf(store.db_type, backend, dbCall.collection)
               after  == RecordsOf(store'.db_type, backend', dbCall.collection)
           IN  /\ dbCall'.ok
               /\ DOMAIN after = DOMAIN before
               /\ dbCall.id \in DOMAIN after
               /\ after[dbCall.id] = StoredFields(dbCall'.embedding, dbCall'.metadata) ]_vars

\* both collections were created for the width of the embeddings
BothCreated(c1, c2) ==
    /\ {c1, c2} \subseteq created
    /\ \A c \in {c1, c2} : DictGet(store.collections, c, 0) = EmbeddingWidth

\* C10: collections are independent namespaces in every adapter: when a
\* successful insert_document of an id into one created collection is followed
\* by an insert_document of the same id into another created collection, the
\* second returns True and each collection holds its own record of the id; and
\* a search, delete_document or delete_collection on one collection leaves the
\* records of every other collection as they were.
C10_CollectionsAreIndependent ==
    [][ IsDbCallStep =>
          /\ ( /\ InsertedOk
               /\ dbCall'.op = "insert_document"
               /\ dbCall'.id = dbCall.id
               /\ dbCall'.collection # dbCall.collection
               /\ BothCreated(dbCall.collection, dbCall'.collection) )
             => /\ dbCall'.ok
                /\ dbCall.id \in DOMAIN RecordsOf(store'.db_type, backend', dbCall.collection)
                /\ dbCall.id \in DOMAIN RecordsOf(store'.db_type, backend', dbCall'.collection)
                /\ RecordsOf(store'.db_type, backend', dbCall.collection)
                     = RecordsOf(store.db_type, backend, dbCall.collection)
          /\ dbCall'.op \in {"search", "delete_document", "delete_collection"}
             => \A o \in Collections \ {dbCall'.collection} :
                  /\ RecordsOf(store'.db_type, backend', o)
                       = RecordsOf(store.db_type, backend, o)
                  /\ SearchableOf(store'.db_type, backend', o)
                       = SearchableOf(store.db_type, backend, o) ]_vars

\* C11: in every adapter, delete_collection on a connected store for a
\* collection name for which create_collection never succeeded and which
\* holds no records returns False.
C11_DeleteOfNeverCreatedFails ==
    [][ ( /\ IsDbCallStep
          /\ dbCall'.op = "delete_collection"
          /\ SessionUsable(store, backend)
          /\ store.client = "open"
          /\ dbCall'.collection \notin everCreated
          /\ RecordsOf(store.db_type, backend, dbCall'.collection) = EmptyDict )
        => ~dbCall'.ok ]_vars

\* C12: in every adapter and in every lifecycle state of the store (never
\* connected, connect failed, connected, disconnected) a call of connect,
\* create_collection, insert_document, delete_document, delete_collection or
\* disconnect returns a boolean, a call of search returns a list, and no call
\* raises, whatever the backend reports.
C12_AdapterCallsNeverRaise ==
    dbCall.op # "none" =>
        /\ ~dbCall.raised
        /\ dbCall.ok \in BOOLEAN
        /\ DOMAIN dbCall.hits = 1..Len(dbCall.hits)
        /\ dbCall.op # "search" => dbCall.hits = <<>>

\* disconnect was the first call on the adapter (connect never succeeded) and
\* returned True
C12_Witness ==
    /\ dbCall.op = "disconnect"
    /\ store.calls = 1
    /\ dbCall.ok
    /\ ~dbCall.raised

\* C23: create_collection called again on a connected store with the name
\* and dimension of a collection that exists returns True and changes
\* nothing: the backend (records and schema) and the dimensions the adapter
\* records are as before, in every adapter.
C23_CreateCollectionAgainIsNoOp ==
    [][ ( /\ IsDbCallStep
          /\ dbCall'.op = "create_collection"
          /\ SessionUsable(store, backend)
          /\ store.client = "open"
          /\ dbCall'.collection \in created
          /\ dbCall'.collection \in DOMAIN store.collections
          /\ store'.collections[dbCall'.collection]
                = store.collections[dbCall'.collection] )
        => /\ dbCall'.ok
           /\ backend' = backend
           /\ store'.collections = store.collections ]_vars

\* an index made by create_collection holds documents when create_collection
\* returns
C23_Witness ==
    /\ dbCall.op = "create_collection"
    /\ dbCall.ok
    /\ store.db_type = "elasticsearch"
    /\ store.client = "open"
    /\ dbCall.collection \in created
    /\ IndexName(dbCall.collection) \in DOMAIN backend.es
    /\ backend.es[IndexName(dbCall.collection)].dense
    /\ backend.es[IndexName(dbCall.collection)].dims
          = store.collections[dbCall.collection]
    /\ backend.es[IndexName(dbCall.collection)].docs # EmptyDict

\* C24: the dimension of a collection is fixed when it is created: while
\* the collection exists no call changes the dimension the adapter records
\* for it (self.collections[name]) or the vector width the backend enforces
\* for it, and the two are equal.
C24_DimensionFixedAtCreation ==
    [][ IsDbCallStep =>
          \A c \in created \cap created' :
              LET Enforced(b) ==
                      CASE store.db_type = "pgvector" -> EmbeddingWidth
                        [] store.db_type = "elasticsearch" ->
                              b.es[IndexName(c)].dims
                        [] OTHER -> store'.collections[c]
              IN  /\ c \in DOMAIN store.collections
                  /\ c \in DOMAIN store'.collections
                  /\ store'.collections[c] = store.collections[c]
                  /\ Enforced(backend') = Enforced(backend)
                  /\ store'.collections[c] = Enforced(backend') ]_vars

(***************************************************************************)
(* Claims about the pipeline (specification SpecPipeline).                 *)
(***************************************************************************)
\* the first run fetched, embedded and stored every page
FirstRunFull ==
    /\ pl.log[1].fetched = Pages
    /\ pl.log[1].embedCalls = Pages
    /\ pl.log[1].insertCalls = Pages
    /\ pl.log[1].stored = Pages

\* the second run is over, and between the runs exactly page b was modified
SecondRunAfterModifying(b) ==
    /\ pl.run = 2
    /\ pl.phase = "vectordb"
    /\ FirstRunFull
    /\ pl.log[2].modified = {b}
    /\ pl.log[2].fetched = Pages

\* C4: after a first full run over the pages, when only one page B was
\* modified and the pipeline has run again, the second run called the
\* embedding model for B only and insert_document for B's records only.
C4_RerunEmbedsAndInsertsOnlyModified ==
    \A b \in Pages :
        SecondRunAfterModifying(b) =>
            /\ pl.log[2].embedCalls = {b}
            /\ pl.log[2].insertCalls = {b}

(***************************************************************************)
(* Claims about search_documents, checked under SpecSearch.                *)
(***************************************************************************)
\* search_documents connected and returned a list
SdReturned == sd.phase = "returned" /\ sd.connected /\ ~sd.raised

\* the hits that are chunks of the parent id, in the order the store gave them
ChunkHitsOf(id) ==
    SelectSeq(sd.hits, LAMBDA h : /\ DictGet(h.metadata, "is_chunk", FALSE)
                                  /\ DictGet(h.metadata, "parent_id", "") = id)

\* the entries of the returned list that are groups of chunks
GroupEntries == {k \in 1..Len(sd.result) : "chunks" \in DOMAIN sd.result[k]}

\* C13: with group_chunks=false search_documents asks the store for exactly
\* `limit` hits and returns the store's hits unmodified and in the store's
\* order, which is by descending similarity; at most `limit` entries.
C13_UngroupedReturnsStoreHits ==
    (SdReturned /\ ~sd.group_chunks) =>
        /\ sd.requested = sd.limit
        /\ sd.result = sd.hits
        /\ Len(sd.result) <= sd.limit
        /\ \A i, j \in 1..Len(sd.result) :
              i < j => sd.result[i].similarity >= sd.result[j].similarity

C13_Witness ==
    /\ SdReturned
    /\ ~sd.group_chunks
    /\ sd.limit = 2
    /\ Len(sd.result) = 2
    /\ sd.result[1].similarity > sd.result[2].similarity

\* C14: with group_chunks=true the content of a group is the contents of all
\* the chunk hits of that parent, joined in ascending chunk_index order,
\* whatever the order of the hits.
C14_GroupContentInChunkIndexOrder ==
    (SdReturned /\ sd.group_chunks) =>
        \A k \in GroupEntries :
            LET mine == ChunkHitsOf(sd.result[k].id)
                index(h) == DictGet(h.metadata, "chunk_index", 0)
                nth(p) == CHOOSE i \in 1..Len(mine) :
                             Cardinality({j \in 1..Len(mine) :
                                            index(mine[j]) < index(mine[i])}) = p - 1
            IN  sd.result[k].content =
                    JoinContents([p \in 1..Len(mine) |-> mine[nth(p)]])

C14_Witness ==
    /\ SdReturned
    /\ sd.group_chunks
    /\ Len(sd.hits) = 3
    /\ \A p \in 1..3 : DictGet(sd.hits[p].metadata, "parent_id", "") = "x"
    /\ DictGet(sd.hits[1].metadata, "chunk_index", 0) = 2
    /\ DictGet(sd.hits[2].metadata, "chunk_index", 0) = 0
    /\ DictGet(sd.hits[3].metadata, "chunk_index", 0) = 1
    /\ sd.result[1].content = "c0\n\nc1\n\nc2"

C16_GroupedListSortedBoundedUnique ==
    (SdReturned /\ sd.group_chunks) =>
        /\ Len(sd.result) <= sd.limit
        /\ \A i, j \in 1..Len(sd.result) :
              i < j => /\ sd.result[i].similarity >= sd.result[j].similarity
                       /\ sd.result[i].id # sd.result[j].id

C16_Witness ==
    /\ SdReturned
    /\ sd.group_chunks
    /\ sd.limit = 2
    /\ Len(sd.result) = 2
    /\ Len(sd.hits) > 2
    /\ sd.result[1].similarity > sd.result[2].similarity
    /\ GroupEntries # {}

\* C17: a group keeps at most three chunks, and when more than three chunk
\* hits belong to it the chunks kept are the three of highest similarity.
C17_GroupKeepsTopThreeBySimilarity ==
    (SdReturned /\ sd.group_chunks) =>
        \A k \in GroupEntries :
            LET mine == ChunkHitsOf(sd.result[k].id)
                kept == sd.result[k].chunks
                keptIndexes == {kept[p].index : p \in 1..Len(kept)}
            IN  /\ Len(kept) <= MaxGroupChunks
                /\ Len(mine) > MaxGroupChunks =>
                      \A p \in 1..Len(kept), m \in 1..Len(mine) :
                          DictGet(mine[m].metadata, "chunk_index", 0) \notin keptIndexes
                              => kept[p].similarity >= mine[m].similarity

(***************************************************************************)
(* Specifications                                                          *)
(***************************************************************************)
\* C21: in the batch loops never more than max_concurrent tasks are in
\* flight, and no task of a batch has started before every task of the
\* batches before it has ended, with a result, a failure value or an
\* exception.
C21_BatchesRunOneAfterAnother ==
    bt.phase # "idle" =>
        LET n == Len(bt.status)
            BatchOf(t) == (t - 1) \div bt.max_concurrent
        IN  /\ Cardinality({t \in 1..n : bt.status[t] = "running"}) <= bt.max_concurrent
            /\ \A t, u \in 1..n :
                  (bt.status[t] # "waiting" /\ BatchOf(u) < BatchOf(t))
                      => bt.status[u] \in {"ok", "failed", "raised"}

C21_Witness ==
    /\ bt.phase = "looping"
    /\ bt.max_concurrent = 2
    /\ Len(bt.status) = 4
    /\ bt.status[1] = "raised"
    /\ bt.status[2] = "failed"
    /\ bt.status[3] = "running"
    /\ bt.status[4] = "running"


\* C22: one _generate_embedding call posts the request at most max_retries
\* times; the wait after a rate-limited or failed attempt number k (counted
\* from 0, as the loop does) is 2^k seconds; a call whose attempts all failed
\* returns None; a chunk is in the document's result exactly when its call
\* returned an embedding; and the run ends only after every non-blank chunk
\* of every document has had its call.
C22_RetryWithBackoff ==
    rt.phase # "idle" =>
        LET Bounded(tried, waits) ==
                /\ tried <= rt.max_retries
                /\ Len(waits) <= tried
                /\ \A k \in DOMAIN waits : waits[k] = 2 ^ (k - 1)
        IN  /\ Bounded(rt.tried, rt.waits)
            /\ \A e \in rt.ended :
                  /\ Bounded(e.tried, e.waits)
                  /\ Len(e.waits) = rt.max_retries => e.ret = "None"
                  /\ e.ret = "None" <=> <<e.d, e.c>> \notin rt.chunks
            /\ \A dc \in rt.chunks : \E e \in rt.ended : e.d = dc[1] /\ e.c = dc[2]
            /\ rt.phase = "done" =>
                  \A d \in DOMAIN rt.docs : \A c \in DOMAIN rt.docs[d] :
                      rt.docs[d][c] = "text" =>
                          \E e \in rt.ended : e.d = d /\ e.c = c

\* the first chunk of the first document failed three times, with waits of
\* 1, 2 and 4 seconds, and a later chunk and the next document were embedded
C22_Witness ==
    /\ rt.phase = "done"
    /\ rt.max_retries = 3
    /\ [d |-> 1, c |-> 1, ret |-> "None", tried |-> 3, waits |-> <<1, 2, 4>>] \in rt.ended
    /\ rt.chunks = {<<1, 2>>, <<2, 1>>}


\* C27: the ledger on disk is what the call that saved last wrote, the ids of
\* the file it had read plus its own; as long as no update_document call read
\* the file while another was between its read and its write, the ledger on
\* disk has a record for every id whose update has returned.
C27_SingleWriterKeepsEveryRecord ==
    wr.phase # "idle" =>
        /\ wr.last # <<>> =>
              DOMAIN wr.file.documents =
                  DOMAIN LoadMetadata(wr.last[1].read).documents \cup {wr.last[1].document_id}
        /\ ~wr.overlapped => wr.updated \subseteq DOMAIN wr.file.documents

\* two calls overlapped, both have returned, and the ledger on disk lacks the
\* record of one of them
C27_Witness ==
    /\ wr.phase = "writing"
    /\ wr.overlapped
    /\ wr.started = 2
    /\ \A w \in 1..2 : wr.writers[w].pc = "idle"
    /\ wr.file.state = "valid"
    /\ wr.updated = DocIds
    /\ DOMAIN wr.file.documents = {"docs_api"}


\* C26: when a grouping search_documents gets, as hits, two or more of the
\* chunk records store_embeddings wrote for a document, none of them is
\* returned as a result of its own, and the document is a result (unless
\* the limit is taken up by other results).
C26_StoredChunksAreGrouped ==
    (lc.fn = "search_documents" /\ lc.group_chunks /\ ~lc.raised) =>
        \A p \in Pages :
            LET chunk_ids == {p \o "_chunk_" \o ToString(i) : i \in 0..MaxFileChunks}
            IN  Cardinality({k \in DOMAIN lc.hits : lc.hits[k].id \in chunk_ids}) >= 2
                    => /\ \A k \in DOMAIN lc.result : lc.result[k].id \notin chunk_ids
                       /\ \/ \E k \in DOMAIN lc.result : lc.result[k].id = p
                          \/ Len(lc.result) = lc.limit

\* C28: a search_documents call with group_chunks that connected returns;
\* it does not raise, whatever hits the adapter's search gave.
C28_GroupedSearchNeverRaises ==
    (sd.phase = "returned" /\ sd.connected /\ sd.group_chunks) => ~sd.raised

\* C29: a function of integration.py calls connect first and once; when
\* connect returned True the last adapter call is disconnect, it is the only
\* disconnect, and the adapter is left without an open client, also when the
\* function raised; when connect returned False nothing else was called.
C29_DisconnectExactlyOnce ==
    lc.fn # "none" =>
        LET n == Len(lc.calls)
        IN  /\ n >= 1
            /\ lc.calls[1] = "connect"
            /\ \A k \in 2..n : lc.calls[k] # "connect"
            /\ IF lc.connected
               THEN /\ n >= 3
                    /\ lc.calls[n] = "disconnect"
                    /\ \A k \in 1..(n - 1) : lc.calls[k] # "disconnect"
                    /\ store.client # "open"
               ELSE n = 1 /\ ~lc.raised

\* store_embeddings connected, made the collection and raised when it listed
\* a directory that does not exist: disconnect was still called
C29_Witness ==
    /\ lc.fn = "store_embeddings"
    /\ lc.connected
    /\ lc.raised
    /\ lc.calls = <<"connect", "create_collection", "disconnect">>

\* C30: once store_embeddings has stored docs_intro from a file of m chunks,
\* the collection holds no chunk record of docs_intro with chunk_index >= m.
C30_NoStaleChunks ==
    lc.latest > 0 =>
        LET recs == RecordsOf(store.db_type, backend, "docs")
        IN  \A id \in DOMAIN recs :
                LET md == DictGet(recs[id].metadata, "metadata", EmptyDict)
                IN  (DictGet(md, "is_chunk", FALSE) /\ DictGet(md, "parent_id", "") = "docs_intro")
                        => md.chunk_index < lc.latest

Init ==
    TrkInit /\ ck = CkIdle /\ DbHeld /\ pl = PlIdle /\ sd = SdIdle
    /\ bt = NoRun /\ rt = NoRun /\ wr = NoRun /\ lc = NoRun

Next == (UpdateDocument \/ MarkDocumentDeleted) /\ UNCHANGED <<ck, vars_db, pl, sd, bt, rt, wr, lc>>

Spec == Init /\ [][Next]_vars

InitChunk ==
    CkInit /\ TrkInit /\ DbHeld /\ pl = PlIdle /\ sd = SdIdle
    /\ bt = NoRun /\ rt = NoRun /\ wr = NoRun /\ lc = NoRun

NextChunk == ChunkTextReturns /\ UNCHANGED <<vars_trk, vars_db, pl, sd, bt, rt, wr, lc>>

SpecChunk == InitChunk /\ [][NextChunk]_vars

InitDB ==
    DbInit /\ TrkInit /\ ck = CkIdle /\ pl = PlIdle /\ sd = SdIdle
    /\ bt = NoRun /\ rt = NoRun /\ wr = NoRun /\ lc = NoRun

NextDB == DbNext /\ UNCHANGED <<vars_trk, ck, pl, sd, bt, rt, wr, lc>>

SpecDB == InitDB /\ [][NextDB]_vars

InitPipeline ==
    PlInit /\ TrkInit /\ ck = CkIdle /\ sd = SdIdle
    /\ bt = NoRun /\ rt = NoRun /\ wr = NoRun /\ lc = NoRun

NextPipeline == PlNext /\ UNCHANGED <<lastCall, prevCall, observed, ck, sd, bt, rt, wr, lc>>

SpecPipeline == InitPipeline /\ [][NextPipeline]_vars

NextLedger ==
    (\/ UpdateDocument
     \/ MarkDocumentDeleted
     \/ GetDocumentMetadata
     \/ GetAllDocumentIds
     \/ CorruptLedger) /\ UNCHANGED <<ck, vars_db, pl, sd, bt, rt, wr, lc>>

SpecLedger == Init /\ [][NextLedger]_vars

\* the adapter object of search_documents is its own; the store's collection
\* was filled by insert_document calls
InitSearch ==
    /\ sd = SdIdle
    /\ \E t \in DbTypes, up \in BOOLEAN :
         /\ store = NewStore(t)
         /\ backend \in {[b EXCEPT !.up = up] : b \in PopulatedBackends(t)}
    /\ dbCall = DbIdle
    /\ created = {"docs"}
    /\ everCreated = {"docs"}
    /\ TrkInit /\ ck = CkIdle /\ pl = PlIdle
    /\ bt = NoRun /\ rt = NoRun /\ wr = NoRun /\ lc = NoRun

NextSearch ==
    (SearchDocuments \/ (EsRefresh /\ UNCHANGED sd))
        /\ UNCHANGED <<vars_trk, ck, pl, bt, rt, wr, lc>>

SpecSearch == InitSearch /\ [][NextSearch]_vars

=============================================================================
